---- MODULE Spec2Model ----
(***************************************************************************)
(* A model of wasm-chisel: the libchisel passes (translators, validators)  *)
(* over an in-memory Wasm module, and the chisel driver state machine that *)
(* runs rulesets of passes over input files.                               *)
(*                                                                         *)
(* A Wasm module is an ordered sequence of sections.  Names that the code  *)
(* slices (import and export field names) are sequences of chunks, so that *)
(* "ethereum_useGas" is <<"ethereum_", "useGas">> and a prefix test is a   *)
(* test on a leading subsequence.                                          *)
(***************************************************************************)
EXTENDS Integers, Sequences, FiniteSets, TLC

\* ------------------------------------------------------------------------
\* Bounds of the model
\* ------------------------------------------------------------------------
MaxImports == 2
MaxExports == 2
MaxCustoms == 2
MaxCalls == 2
MaxRulesets == 3
MaxPasses == 2

\* ------------------------------------------------------------------------
\* Helpers on sequences
\* ------------------------------------------------------------------------
RECURSIVE SeqsUpTo(_, _)
SeqsUpTo(S, n) ==
    IF n = 0 THEN {<<>>}
    ELSE LET shorter == SeqsUpTo(S, n - 1)
         IN  shorter \cup {Append(s, x) : s \in {t \in shorter : Len(t) = n - 1}, x \in S}

\* Index of the first element satisfying Test, 0 when there is none
\* (Iterator::position / Iterator::find).
Position(s, Test(_)) ==
    IF \E i \in 1..Len(s) : Test(s[i])
    THEN CHOOSE i \in 1..Len(s) : Test(s[i]) /\ \A j \in 1..(i - 1) : ~Test(s[j])
    ELSE 0

\* Vec::remove(i), i one-based
RemoveAt(s, i) == SubSeq(s, 1, i - 1) \o SubSeq(s, i + 1, Len(s))

\* Vec::insert(i, x): x ends up at one-based position i
InsertAt(s, i, x) == SubSeq(s, 1, i - 1) \o <<x>> \o SubSeq(s, i, Len(s))

\* ------------------------------------------------------------------------
\* Module representation (parity_wasm::elements::Module as the passes use it)
\* ------------------------------------------------------------------------
\* One shape for the entries of every section, so that entries and sections
\* of different kinds compare (as unequal) without a type clash.
Entry(ns, field, kind, idx, params, ret) ==
    [ns |-> ns, field |-> field, kind |-> kind, idx |-> idx, params |-> params, ret |-> ret]

\* FunctionType::new(params, return_type)
FunctionType(params, ret) == Entry("", <<>>, "functype", 0, params, ret)
\* ImportEntry::new(module, field, external); for External::Function idx is the type index
ImportEntry(ns, field, kind, idx) == Entry(ns, field, kind, idx, <<>>, "none")
\* ExportEntry::new(field, internal)
ExportEntry(field, kind, idx) == Entry("", field, kind, idx, <<>>, "none")
\* an entry of the function section: Func::new(type_ref)
FuncEntry(typeRef) == Entry("", <<>>, "typeref", typeRef, <<>>, "none")
\* a function body: its instructions are kept in params
FuncBody(instrs) == Entry("", <<>>, "body", 0, instrs, "none")

Section(kind, name, entries, idx) ==
    [kind |-> kind, name |-> name, entries |-> entries, idx |-> idx, payload |-> <<>>]
TypeSection(types) == Section("Type", "", types, 0)
ImportSection(entries) == Section("Import", "", entries, 0)
FunctionSection(entries) == Section("Function", "", entries, 0)
\* one memory entry: MemoryType::new(minPages, None)
MemorySection(minPages) ==
    Section("Memory", "", <<Entry("", <<>>, "memtype", minPages, <<>>, "none")>>, 0)
ExportSection(entries) == Section("Export", "", entries, 0)
StartSection(funcIdx) == Section("Start", "", <<>>, funcIdx)
CodeSection(bodies) == Section("Code", "", bodies, 0)
\* Section::Custom(CustomSection::new(name, payload))
CustomSection(name, payload) ==
    [kind |-> "Custom", name |-> name, entries |-> <<>>, idx |-> 0, payload |-> payload]
\* Section::Name(_): the name section in parsed form
NameSection == Section("Name", "name", <<>>, 0)

\* Section::order(): the position of a section kind in a well-formed module;
\* custom, name and unparsed sections have order 0.
SectionOrder(kind) ==
    CASE kind = "Type" -> 1
      [] kind = "Import" -> 2
      [] kind = "Function" -> 3
      [] kind = "Table" -> 4
      [] kind = "Memory" -> 5
      [] kind = "Global" -> 6
      [] kind = "Export" -> 7
      [] kind = "Start" -> 8
      [] kind = "Element" -> 9
      [] kind = "Code" -> 11
      [] kind = "Data" -> 12
      [] OTHER -> 0

\* Index of the first section of a kind, 0 when absent
section_index(module, kind) == Position(module, LAMBDA s : s.kind = kind)
has_section(module, kind) == section_index(module, kind) # 0

\* Module::import_section(), export_section(), type_section(), ... : the first
\* section of the kind; only used under has_section
get_section(module, kind) == module[section_index(module, kind)]

\* Module::start_section(): Some(function index) or None (-1)
start_section(module) ==
    IF has_section(module, "Start") THEN get_section(module, "Start").idx ELSE -1

\* Module::clear_start_section(): removes the first start section
clear_start_section(module) ==
    IF has_section(module, "Start") THEN RemoveAt(module, section_index(module, "Start"))
    ELSE module

\* Module::insert_section(section): a section of order 0 goes last; a section
\* whose kind is already there is an error ("dup"); otherwise it is inserted
\* before the first section of higher order, or last.
insert_section(module, section) ==
    LET ord == SectionOrder(section.kind)
        after == Position(module, LAMBDA s : ord < SectionOrder(s.kind))
    IN  IF ord = 0 THEN [err |-> FALSE, module |-> Append(module, section)]
        ELSE IF \E i \in 1..Len(module) : SectionOrder(module[i].kind) = ord
             THEN [err |-> TRUE, module |-> module]
        ELSE IF after # 0 THEN [err |-> FALSE, module |-> InsertAt(module, after, section)]
        ELSE [err |-> FALSE, module |-> Append(module, section)]

\* Replace the first section of a kind by another value (the *section = ...
\* assignments through import_section_mut / export_section_mut)
set_section(module, kind, section) ==
    [module EXCEPT ![section_index(module, kind)] = section]

\* HasNamesSection::has_names_section
has_names_section(module) ==
    Position(module, LAMBDA e : IF e.kind = "Custom" THEN e.name = "name"
                                ELSE e.kind = "Name") # 0

\* ------------------------------------------------------------------------
\* Results of a pass
\* ------------------------------------------------------------------------
\* Result<bool, ModuleError> (and a panic, which unwinds out of the call)
OkTrue == "Ok(true)"
OkFalse == "Ok(false)"
ErrNotSupported == "Err(NotSupported)"
ErrNotFound == "Err(NotFound)"
ErrCustom == "Err(Custom)"
Panic == "panic"
OkBool(b) == IF b THEN OkTrue ELSE OkFalse

\* what translate_inplace leaves behind: its return value and the module
Outcome(ret, module) == [ret |-> ret, module |-> module]

\* ------------------------------------------------------------------------
\* dropsection
\* ------------------------------------------------------------------------
\* a search that only knows the raw form of the name section
custom_section_index_for_raw_only(module, name) ==
    Position(module, LAMBDA e : e.kind = "Custom" /\ e.name = name)

\* custom_section_index_for: one-based index of the first custom section with
\* the name (a parsed name section counts as "name"), 0 for None
custom_section_index_for(module, name) ==
    Position(module, LAMBDA e : IF e.kind = "Custom" THEN e.name = name
                                ELSE IF e.kind = "Name" THEN name = "name"
                                ELSE FALSE)

\* DropSection::find_index; the by-index variants return the configured
\* (zero-based) index as it is, here made one-based
find_index(pass, module) ==
    CASE pass.mode = "names" -> custom_section_index_for(module, "name")
      [] pass.mode = "custom_by_name" -> custom_section_index_for(module, pass.name)
      [] pass.mode = "custom_by_index" -> pass.index + 1
      [] pass.mode = "unknown_by_index" -> pass.index + 1

\* DropSection::drop_section
drop_section(pass, module) ==
    LET index == find_index(pass, module)
    IN  IF index # 0 /\ index - 1 < Len(module)
        THEN Outcome(OkTrue, RemoveAt(module, index))
        ELSE Outcome(OkFalse, module)

\* ------------------------------------------------------------------------
\* trimstartfunc
\* ------------------------------------------------------------------------
\* a trim_startfunc that reports the removal and leaves the start section
trim_startfunc_keeping_start(module) ==
    IF start_section(module) # -1
    THEN Outcome(OkTrue, module)
    ELSE Outcome(OkFalse, module)

\* TrimStartFunc::trim_startfunc
trim_startfunc(module) ==
    IF start_section(module) # -1
    THEN Outcome(OkTrue, clear_start_section(module))
    ELSE Outcome(OkFalse, module)

\* ------------------------------------------------------------------------
\* remapstart
\* ------------------------------------------------------------------------
\* an export of main that is always appended, next to an existing one
remap_or_export_main_appending(module, export_name, func_idx) ==
    IF has_section(module, "Export")
    THEN set_section(module, "Export",
                     ExportSection(Append(get_section(module, "Export").entries,
                                          ExportEntry(export_name, "func", func_idx))))
    ELSE insert_section(module,
                        ExportSection(<<ExportEntry(export_name, "func", func_idx)>>)).module

\* an export of main that always comes in an export section of its own
remap_or_export_main_in_new_section(module, export_name, func_idx) ==
    Append(module, ExportSection(<<ExportEntry(export_name, "func", func_idx)>>))

\* remap_or_export_main: replace the first export named export_name by a
\* function export of func_idx, append one when there is none, create the
\* export section when the module has none
remap_or_export_main(module, export_name, func_idx) ==
    LET new_func_export == ExportEntry(export_name, "func", func_idx)
    IN  IF has_section(module, "Export")
        THEN LET entries == get_section(module, "Export").entries
                 main_export_loc == Position(entries, LAMBDA e : e.field = export_name)
                 replaced == IF main_export_loc # 0
                             THEN [entries EXCEPT ![main_export_loc] = new_func_export]
                             ELSE Append(entries, new_func_export)
             IN  set_section(module, "Export", ExportSection(replaced))
        ELSE insert_section(module, ExportSection(<<new_func_export>>)).module

\* remap_start
remap_start(module) ==
    IF start_section(module) # -1
    THEN Outcome(OkTrue,
                 clear_start_section(
                     remap_or_export_main(module, <<"main">>, start_section(module))))
    ELSE Outcome(OkFalse, module)

\* ------------------------------------------------------------------------
\* trimexports
\* ------------------------------------------------------------------------
\* ExportWhitelist::with_preset; <<>> with ok = FALSE for an unknown preset
ExportWhitelist(preset) ==
    CASE preset = "ewasm" -> <<ExportEntry(<<"main">>, "func", 0),
                               ExportEntry(<<"memory">>, "memory", 0)>>
      [] preset = "pwasm" -> <<ExportEntry(<<"_call">>, "func", 0)>>
      [] OTHER -> <<>>

\* a lookup by field name alone, whatever the kind of the export
lookup_by_name_only(whitelist, export) ==
    \E i \in 1..Len(whitelist) : export.field = whitelist[i].field

\* ExportWhitelist::lookup: same field and same variant of Internal
lookup(whitelist, export) ==
    \E i \in 1..Len(whitelist) :
        export.field = whitelist[i].field /\ export.kind = whitelist[i].kind

\* TrimExports::trim_exports
trim_exports(whitelist, module) ==
    IF has_section(module, "Export")
    THEN LET section == get_section(module, "Export")
             kept == SelectSeq(section.entries, LAMBDA entry : lookup(whitelist, entry))
         IN  IF Len(kept) < Len(section.entries)
             THEN Outcome(OkTrue, set_section(module, "Export", ExportSection(kept)))
             ELSE Outcome(OkFalse, module)
    ELSE Outcome(OkFalse, module)

\* ------------------------------------------------------------------------
\* repack
\* ------------------------------------------------------------------------
StandardKinds ==
    <<"Type", "Import", "Function", "Table", "Memory", "Global", "Export", "Start",
      "Element", "Code", "Data">>

\* Repack::translate: builder::from_module(module).build() keeps the standard
\* sections that hold something, in canonical order, and nothing else; it
\* always returns Some(module)
RECURSIVE repack_from(_, _)
repack_from(module, k) ==
    IF k > Len(StandardKinds) THEN <<>>
    ELSE LET kind == StandardKinds[k]
             keep == /\ has_section(module, kind)
                     /\ \/ kind = "Start"
                        \/ get_section(module, kind).entries # <<>>
         IN  (IF keep THEN <<get_section(module, kind)>> ELSE <<>>)
             \o repack_from(module, k + 1)

\* a repacking that drops the raw custom sections and keeps the parsed name
\* section
repack_translate_keeping_names(module) ==
    Outcome(OkTrue, SelectSeq(module, LAMBDA s : s.kind # "Custom"))

repack_translate(module) == Outcome(OkTrue, repack_from(module, 1))

\* ------------------------------------------------------------------------
\* Import lists (imports.rs) and remapimports
\* ------------------------------------------------------------------------
\* ImportType::Function(module, field, FunctionType::new(params, ret)) and
\* ImportType::Global / Memory / Table (module, field)
ImportFunc(ns, field, params, ret) == Entry(ns, field, "func", 0, params, ret)
ImportGlobal(ns, field) == Entry(ns, field, "global", 0, <<>>, "none")

ImportList_ewasm ==
    <<ImportFunc("ethereum", <<"useGas">>, <<"i64">>, "none"),
      ImportFunc("ethereum", <<"getGasLeft">>, <<>>, "i64"),
      ImportFunc("ethereum", <<"getAddress">>, <<"i32">>, "none"),
      ImportFunc("ethereum", <<"getExternalBalance">>, <<"i32", "i32">>, "none"),
      ImportFunc("ethereum", <<"getBlockHash">>, <<"i64", "i32">>, "i32"),
      ImportFunc("ethereum", <<"call">>, <<"i64", "i32", "i32", "i32", "i32">>, "i32"),
      ImportFunc("ethereum", <<"callCode">>, <<"i64", "i32", "i32", "i32", "i32">>, "i32"),
      ImportFunc("ethereum", <<"callDelegate">>, <<"i64", "i32", "i32", "i32">>, "i32"),
      ImportFunc("ethereum", <<"callStatic">>, <<"i64", "i32", "i32", "i32">>, "i32"),
      ImportFunc("ethereum", <<"create">>, <<"i64", "i32", "i32", "i32">>, "i32"),
      ImportFunc("ethereum", <<"callDataCopy">>, <<"i32", "i32", "i32">>, "none"),
      ImportFunc("ethereum", <<"getCallDataSize">>, <<>>, "i32"),
      ImportFunc("ethereum", <<"getCodeSize">>, <<>>, "i32"),
      ImportFunc("ethereum", <<"getExternalCodeSize">>, <<"i32">>, "i32"),
      ImportFunc("ethereum", <<"externalCodeCopy">>, <<"i32", "i32", "i32", "i32">>, "none"),
      ImportFunc("ethereum", <<"codeCopy">>, <<"i32", "i32", "i32">>, "none"),
      ImportFunc("ethereum", <<"getCaller">>, <<"i32">>, "none"),
      ImportFunc("ethereum", <<"getCallValue">>, <<"i32">>, "none"),
      ImportFunc("ethereum", <<"getBlockDifficulty">>, <<"i32">>, "none"),
      ImportFunc("ethereum", <<"getBlockCoinbase">>, <<"i32">>, "none"),
      ImportFunc("ethereum", <<"getBlockNumber">>, <<>>, "i64"),
      ImportFunc("ethereum", <<"getBlockGasLimit">>, <<>>, "i64"),
      ImportFunc("ethereum", <<"getBlockTimestamp">>, <<>>, "i64"),
      ImportFunc("ethereum", <<"getTxGasPrice">>, <<"i32">>, "none"),
      ImportFunc("ethereum", <<"getTxOrigin">>, <<"i32">>, "none"),
      ImportFunc("ethereum", <<"storageStore">>, <<"i32", "i32">>, "none"),
      ImportFunc("ethereum", <<"storageLoad">>, <<"i32", "i32">>, "none"),
      ImportFunc("ethereum", <<"log">>, <<"i32", "i32", "i32", "i32", "i32", "i32", "i32">>, "none"),
      ImportFunc("ethereum", <<"getReturnDataSize">>, <<>>, "i32"),
      ImportFunc("ethereum", <<"returnDataCopy">>, <<"i32", "i32", "i32">>, "none"),
      ImportFunc("ethereum", <<"finish">>, <<"i32", "i32">>, "none"),
      ImportFunc("ethereum", <<"revert">>, <<"i32", "i32">>, "none"),
      ImportFunc("ethereum", <<"selfDestruct">>, <<"i32">>, "none")>>

ImportList_eth2 ==
    <<ImportFunc("eth2", <<"loadPreStateRoot">>, <<"i32">>, "none"),
      ImportFunc("eth2", <<"blockDataSize">>, <<>>, "i32"),
      ImportFunc("eth2", <<"blockDataCopy">>, <<"i32", "i32", "i32">>, "none"),
      ImportFunc("eth2", <<"savePostStateRoot">>, <<"i32">>, "none"),
      ImportFunc("eth2", <<"pushNewDeposit">>, <<"i32", "i32">>, "none")>>

ImportList_debug ==
    <<ImportFunc("debug", <<"print32">>, <<"i32">>, "none"),
      ImportFunc("debug", <<"print64">>, <<"i64">>, "none"),
      ImportFunc("debug", <<"printMem">>, <<"i32", "i32">>, "none"),
      ImportFunc("debug", <<"printMemHex">>, <<"i32", "i32">>, "none"),
      ImportFunc("debug", <<"printStorage">>, <<"i32">>, "none"),
      ImportFunc("debug", <<"printStorageHex">>, <<"i32">>, "none")>>

ImportList_bignum ==
    <<ImportFunc("bignum", <<"mul256">>, <<"i32", "i32", "i32">>, "none"),
      ImportFunc("bignum", <<"umulmod256">>, <<"i32", "i32", "i32", "i32">>, "none")>>

\* ImportList::lookup_by_field: one-based index of the first listed import
\* with the field, 0 for None
lookup_by_field(list, name) == Position(list, LAMBDA import : import.field = name)

RemapPresets == {"ewasm", "eth2", "debug", "bignum"}

\* ImportList::with_preset
ImportList(preset) ==
    CASE preset = "ewasm" -> ImportList_ewasm
      [] preset = "eth2" -> ImportList_eth2
      [] preset = "debug" -> ImportList_debug
      [] preset = "bignum" -> ImportList_bignum

\* ImportInterface::new(imports, prefix): has_prefix is FALSE for prefix None
ImportInterface(imports, has_prefix, prefix) ==
    [imports |-> imports, has_prefix |-> has_prefix, prefix |-> prefix]

\* the interface RemapImports::with_preset pushes for one preset name; the
\* prefix is one chunk of a field name
PresetInterface(preset) ==
    CASE preset = "ewasm" -> ImportInterface(ImportList("ewasm"), TRUE, <<"ethereum_">>)
      [] preset = "eth2" -> ImportInterface(ImportList("eth2"), TRUE, <<"eth2_">>)
      [] preset = "debug" -> ImportInterface(ImportList("debug"), TRUE, <<"debug_">>)
      [] preset = "bignum" -> ImportInterface(ImportList("bignum"), TRUE, <<"bignum_">>)

\* a remapping that rewrites the field and keeps the namespace of the entry
remap_from_list_keeping_namespace(entry, interface) ==
    LET prefix_len == Len(interface.prefix)
        rest == SubSeq(entry.field, prefix_len + 1, Len(entry.field))
        found == IF /\ interface.has_prefix
                    /\ Len(entry.field) > prefix_len
                    /\ interface.prefix = SubSeq(entry.field, 1, prefix_len)
                 THEN lookup_by_field(interface.imports, rest)
                 ELSE 0
    IN  IF found # 0
        THEN [mutated |-> TRUE,
              entry |-> ImportEntry(entry.ns, interface.imports[found].field,
                                    entry.kind, entry.idx)]
        ELSE [mutated |-> FALSE, entry |-> entry]

\* RemapImports::remap_from_list: the entry, remapped when its field is the
\* prefix followed by a listed field (or, without a prefix, a listed field),
\* and whether the mutation flag was set
remap_from_list(entry, interface) ==
    LET prefix_len == Len(interface.prefix)
        rest == SubSeq(entry.field, prefix_len + 1, Len(entry.field))
        found == IF interface.has_prefix
                 THEN IF /\ Len(entry.field) > prefix_len
                         /\ interface.prefix = SubSeq(entry.field, 1, prefix_len)
                      THEN lookup_by_field(interface.imports, rest)
                      ELSE 0
                 ELSE lookup_by_field(interface.imports, entry.field)
    IN  IF found # 0
        THEN [mutated |-> TRUE,
              entry |-> ImportEntry(interface.imports[found].ns,
                                    interface.imports[found].field,
                                    entry.kind, entry.idx)]
        ELSE [mutated |-> FALSE, entry |-> entry]

\* the loop of RemapImports::translate_inplace over the interfaces, from
\* interface number k on: the entries after it and the mutation flag
RECURSIVE remap_interfaces(_, _, _)
remap_interfaces(entries, interfaces, k) ==
    IF k > Len(interfaces) THEN [mutated |-> FALSE, entries |-> entries]
    ELSE LET mapped == [i \in 1..Len(entries) |-> remap_from_list(entries[i], interfaces[k])]
             rest == remap_interfaces([i \in 1..Len(entries) |-> mapped[i].entry],
                                      interfaces, k + 1)
         IN  [mutated |-> rest.mutated \/ \E i \in 1..Len(entries) : mapped[i].mutated,
              entries |-> rest.entries]

\* RemapImports::translate_inplace
remapimports_translate_inplace(interfaces, module) ==
    IF has_section(module, "Import")
    THEN LET r == remap_interfaces(get_section(module, "Import").entries, interfaces, 1)
         IN  Outcome(OkBool(r.mutated),
                     set_section(module, "Import", ImportSection(r.entries)))
    ELSE Outcome(OkFalse, module)

\* ------------------------------------------------------------------------
\* verifyimports
\* ------------------------------------------------------------------------
\* the entries of VerifyImports::with_preset("ewasm")
VerifyImports_ewasm ==
    <<ImportFunc("ethereum", <<"useGas">>, <<"i64">>, "none"),
      ImportFunc("ethereum", <<"getGasLeft">>, <<>>, "i64"),
      ImportFunc("ethereum", <<"getAddress">>, <<"i32">>, "none"),
      ImportFunc("ethereum", <<"getExternalBalance">>, <<"i32", "i32">>, "none"),
      ImportFunc("ethereum", <<"getBlockHash">>, <<"i64", "i32">>, "i32"),
      ImportFunc("ethereum", <<"call">>, <<"i64", "i32", "i32", "i32", "i32">>, "i32"),
      ImportFunc("ethereum", <<"callCode">>, <<"i64", "i32", "i32", "i32", "i32">>, "i32"),
      ImportFunc("ethereum", <<"callDelegate">>, <<"i64", "i32", "i32", "i32">>, "i32"),
      ImportFunc("ethereum", <<"callStatic">>, <<"i64", "i32", "i32", "i32">>, "i32"),
      ImportFunc("ethereum", <<"create">>, <<"i64", "i32", "i32", "i32">>, "i32"),
      ImportFunc("ethereum", <<"callDataCopy">>, <<"i32", "i32", "i32">>, "none"),
      ImportFunc("ethereum", <<"getCallDataSize">>, <<>>, "i32"),
      ImportFunc("ethereum", <<"getCodeSize">>, <<>>, "i32"),
      ImportFunc("ethereum", <<"externalCodeCopy">>, <<"i32", "i32", "i32", "i32">>, "none"),
      ImportFunc("ethereum", <<"getCaller">>, <<"i32">>, "none"),
      ImportFunc("ethereum", <<"getCallValue">>, <<"i32">>, "none"),
      ImportFunc("ethereum", <<"getBlockDifficulty">>, <<"i32">>, "none"),
      ImportFunc("ethereum", <<"getBlockCoinbase">>, <<"i32">>, "none"),
      ImportFunc("ethereum", <<"getBlockNumber">>, <<>>, "i64"),
      ImportFunc("ethereum", <<"getBlockGasLimit">>, <<>>, "i64"),
      ImportFunc("ethereum", <<"getBlockTimestamp">>, <<>>, "i64"),
      ImportFunc("ethereum", <<"getTxGasPrice">>, <<"i32">>, "none"),
      ImportFunc("ethereum", <<"getTxOrigin">>, <<"i32">>, "none"),
      ImportFunc("ethereum", <<"storageStore">>, <<"i32", "i32">>, "none"),
      ImportFunc("ethereum", <<"storageLoad">>, <<"i32", "i32">>, "none"),
      ImportFunc("ethereum", <<"log">>, <<"i32", "i32", "i32", "i32", "i32", "i32", "i32">>, "none"),
      ImportFunc("ethereum", <<"getReturnDataSize">>, <<>>, "i32"),
      ImportFunc("ethereum", <<"returnDataCopy">>, <<"i32", "i32", "i32">>, "none"),
      ImportFunc("ethereum", <<"finish">>, <<"i32", "i32">>, "none"),
      ImportFunc("ethereum", <<"revert">>, <<"i32", "i32">>, "none"),
      ImportFunc("ethereum", <<"selfDestruct">>, <<"i32">>, "none")>>

PanicSig == Entry("", <<>>, "panic", 0, <<>>, "none")

\* imported_func_sig_by_index(module, index): index (zero-based) is used as a
\* position in the import section; the entry there gives the type reference
\* (usize::max_value() when it is not a function), which indexes the type
\* section.  A missing type section or an index out of range panics.
imported_func_sig_by_index(module, index) ==
    IF ~has_section(module, "Import") \/ ~has_section(module, "Type") THEN PanicSig
    ELSE LET entries == get_section(module, "Import").entries
             types == get_section(module, "Type").entries
         IN  IF index + 1 > Len(entries) THEN PanicSig
             ELSE IF entries[index + 1].kind # "func" THEN PanicSig
             ELSE IF entries[index + 1].idx + 1 > Len(types) THEN PanicSig
             ELSE types[entries[index + 1].idx + 1]

\* the first import entry with the namespace and the field, 0 for None
find_import(section, ns, field) ==
    Position(section.entries, LAMBDA e : e.ns = ns /\ e.field = field)

\* FunctionType equality between a listed signature and a resolved type
same_sig(listed, resolved) ==
    listed.params = resolved.params /\ listed.ret = resolved.ret

\* has_func_import: "true", "false" or "panic"
has_func_import(module, ns, field, sig) ==
    IF has_section(module, "Import")
    THEN LET section == get_section(module, "Import")
             at == find_import(section, ns, field)
         IN  IF at = 0 THEN "false"
             ELSE IF section.entries[at].kind # "func" THEN "false"
             ELSE LET resolved == imported_func_sig_by_index(module, section.entries[at].idx)
                  IN  IF resolved = PanicSig THEN "panic"
                      ELSE IF same_sig(sig, resolved) THEN "true" ELSE "false"
    ELSE "false"

\* has_global_import, has_memory_import, has_table_import
has_kind_import(section, ns, field, kind) ==
    LET at == find_import(section, ns, field)
    IN  IF at # 0 /\ section.entries[at].kind = kind THEN "true" ELSE "false"

\* IsImported::is_imported for ImportType
is_imported(listed, module) ==
    IF has_section(module, "Import")
    THEN IF listed.kind = "func"
         THEN has_func_import(module, listed.ns, listed.field, listed)
         ELSE has_kind_import(get_section(module, "Import"), listed.ns, listed.field,
                              listed.kind)
    ELSE "false"

\* ImportCheck::check for ImportType: "Good", "NotFound", "Malformed" or "panic"
check(listed, module) ==
    IF has_section(module, "Import")
    THEN LET section == get_section(module, "Import")
             at == Position(section.entries,
                            LAMBDA e : e.field = listed.field /\ listed.ns = e.ns)
         IN  IF at = 0 THEN "NotFound"
             ELSE LET entry == section.entries[at]
                  IN  IF entry.kind = "func"
                      THEN IF listed.kind = "func"
                           THEN LET resolved == imported_func_sig_by_index(module, entry.idx)
                                IN  IF resolved = PanicSig THEN "panic"
                                    ELSE IF same_sig(listed, resolved) THEN "Good"
                                    ELSE "Malformed"
                           ELSE "Malformed"
                      ELSE IF entry.kind = listed.kind THEN "Good" ELSE "Malformed"
    ELSE "NotFound"

\* entries.iter().map(is_imported).find(|e| *e == false).is_none(): the
\* iterator is lazy, it stops at the first false
RECURSIVE all_imported(_, _, _)
all_imported(entries, module, i) ==
    IF i > Len(entries) THEN "true"
    ELSE LET r == is_imported(entries[i], module)
         IN  IF r = "true" THEN all_imported(entries, module, i + 1) ELSE r

\* entries.iter().map(check).find(|e| *e == Malformed).is_none(), lazy as well
RECURSIVE none_malformed(_, _, _)
none_malformed(entries, module, i) ==
    IF i > Len(entries) THEN "true"
    ELSE LET r == check(entries[i], module)
         IN  IF r = "panic" THEN "panic"
             ELSE IF r = "Malformed" THEN "false"
             ELSE none_malformed(entries, module, i + 1)

\* VerifyImports::validate
verifyimports_validate(pass, module) ==
    LET entries == pass.entries
        import_section_len == IF has_section(module, "Import")
                              THEN Len(get_section(module, "Import").entries)
                              ELSE 0
        checklist == [i \in 1..Len(entries) |-> check(entries[i], module)]
        valid_entries_count == Cardinality({i \in 1..Len(entries) : checklist[i] = "Good"})
        verdict ==
            CASE pass.require_all /\ pass.allow_unlisted -> all_imported(entries, module, 1)
              [] pass.require_all /\ ~pass.allow_unlisted ->
                    LET all == all_imported(entries, module, 1)
                    IN  IF all = "true"
                        THEN IF Len(entries) = import_section_len THEN "true" ELSE "false"
                        ELSE all
              [] ~pass.require_all /\ pass.allow_unlisted -> none_malformed(entries, module, 1)
              [] OTHER ->
                    IF \E i \in 1..Len(entries) : checklist[i] = "panic" THEN "panic"
                    ELSE IF valid_entries_count = import_section_len THEN "true"
                    ELSE "false"
    IN  CASE verdict = "true" -> OkTrue
          [] verdict = "false" -> OkFalse
          [] OTHER -> Panic

\* ------------------------------------------------------------------------
\* checkstartfunc, checkfloat
\* ------------------------------------------------------------------------
\* CheckStartFunc::validate
checkstartfunc_validate(start_required, module) ==
    OkBool((start_section(module) # -1) = start_required)

\* a match that knows the arithmetic, the comparisons and the constants of
\* f32 and f64 only
FloatInstructions_arithmetic_only ==
    {"F32Eq", "F32Ne", "F32Lt", "F32Gt", "F32Le", "F32Ge", "F32Abs", "F32Neg", "F32Ceil",
     "F32Floor", "F32Trunc", "F32Nearest", "F32Sqrt", "F32Add", "F32Sub", "F32Mul",
     "F32Div", "F32Min", "F32Max", "F32Copysign", "F64Eq", "F64Ne", "F64Lt", "F64Gt",
     "F64Le", "F64Ge", "F64Abs", "F64Neg", "F64Ceil", "F64Floor", "F64Trunc", "F64Nearest",
     "F64Sqrt", "F64Add", "F64Sub", "F64Mul", "F64Div", "F64Min", "F64Max", "F64Copysign",
     "F32Const", "F64Const"}

\* the instructions CheckFloat::validate matches
FloatInstructions ==
    {"F32Eq", "F32Ne", "F32Lt", "F32Gt", "F32Le", "F32Ge", "F32Abs", "F32Neg", "F32Ceil",
     "F32Floor", "F32Trunc", "F32Nearest", "F32Sqrt", "F32Add", "F32Sub", "F32Mul",
     "F32Div", "F32Min", "F32Max", "F32Copysign", "I32TruncSF32", "I32TruncUF32",
     "I64TruncSF32", "I64TruncUF32", "F32ConvertSI32", "F32ConvertUI32", "F32ConvertSI64",
     "F32ConvertUI64", "F32DemoteF64", "F64PromoteF32", "I32ReinterpretF32",
     "F32ReinterpretI32", "F64Eq", "F64Ne", "F64Lt", "F64Gt", "F64Le", "F64Ge", "F64Abs",
     "F64Neg", "F64Ceil", "F64Floor", "F64Trunc", "F64Nearest", "F64Sqrt", "F64Add",
     "F64Sub", "F64Mul", "F64Div", "F64Min", "F64Max", "F64Copysign", "I32TruncSF64",
     "I32TruncUF64", "I64TruncSF64", "I64TruncUF64", "F64ConvertSI32", "F64ConvertUI32",
     "F64ConvertSI64", "F64ConvertUI64", "I64ReinterpretF64", "F64ReinterpretI64",
     "F32Const", "F32Load", "F32Store", "F64Const", "F64Load", "F64Store"}

\* CheckFloat::validate
checkfloat_validate(module) ==
    IF ~has_section(module, "Code") THEN ErrNotFound
    ELSE LET bodies == get_section(module, "Code").entries
         IN  OkBool(~\E f \in 1..Len(bodies) :
                        \E k \in 1..Len(bodies[f].params) :
                            bodies[f].params[k] \in FloatInstructions)

\* ------------------------------------------------------------------------
\* verifyexports
\* ------------------------------------------------------------------------
\* ExportType::Function(field, sig), ExportType::Memory(field), ...
ExportFunc(field, params, ret) == Entry("", field, "func", 0, params, ret)
ExportMemory(field) == Entry("", field, "memory", 0, <<>>, "none")

\* the entries of VerifyExports::with_preset("ewasm"); allow_unlisted is false
VerifyExports_ewasm == <<ExportFunc(<<"main">>, <<>>, "none"), ExportMemory(<<"memory">>)>>

\* func_import_section_len: the number of function imports
func_import_section_len(imports) ==
    Cardinality({i \in 1..Len(imports.entries) : imports.entries[i].kind = "func"})

\* func_type_ref(funcs, func_index): -1 stands for the panic of an index out
\* of range (a negative func_index is the underflow of index - imports)
func_type_ref(funcs, func_index) ==
    IF func_index < 0 \/ func_index + 1 > Len(funcs.entries) THEN -1
    ELSE funcs.entries[func_index + 1].idx

\* func_sig_by_index: Some(signature), None (kind "none") or a panic
NoSig == Entry("", <<>>, "none", 0, <<>>, "none")
func_sig_by_index(module, index) ==
    IF has_section(module, "Function")
    THEN IF has_section(module, "Type")
         THEN LET types == get_section(module, "Type").entries
                  funcs == get_section(module, "Function")
                  ref == IF has_section(module, "Import")
                         THEN func_type_ref(funcs,
                                  index - func_import_section_len(get_section(module, "Import")))
                         ELSE func_type_ref(funcs, index)
              IN  IF ref = -1 \/ ref + 1 > Len(types) THEN PanicSig ELSE types[ref + 1]
         ELSE NoSig
    ELSE NoSig

\* has_func_export: "true", "false" or "panic"
has_func_export(module, field, sig) ==
    IF has_section(module, "Export")
    THEN LET entries == get_section(module, "Export").entries
             at == Position(entries, LAMBDA e : e.field = field)
         IN  IF at = 0 \/ entries[at].kind # "func" THEN "false"
             ELSE LET resolved == func_sig_by_index(module, entries[at].idx)
                  IN  IF resolved = PanicSig THEN "panic"
                      ELSE IF resolved = NoSig THEN "false"
                      ELSE IF same_sig(sig, resolved) THEN "true" ELSE "false"
    ELSE "false"

\* has_global_export, has_memory_export, has_table_export
has_kind_export(section, field, kind) ==
    LET at == Position(section.entries, LAMBDA e : e.field = field)
    IN  IF at # 0 /\ section.entries[at].kind = kind THEN "true" ELSE "false"

\* IsExported::is_exported for ExportType
is_exported(listed, module) ==
    IF has_section(module, "Export")
    THEN IF listed.kind = "func" THEN has_func_export(module, listed.field, listed)
         ELSE has_kind_export(get_section(module, "Export"), listed.field, listed.kind)
    ELSE "false"

\* entries.iter().map(is_exported).find(|e| *e == false): lazy
RECURSIVE all_exported(_, _, _)
all_exported(entries, module, i) ==
    IF i > Len(entries) THEN "true"
    ELSE LET r == is_exported(entries[i], module)
         IN  IF r = "true" THEN all_exported(entries, module, i + 1) ELSE r

\* VerifyExports::validate
verifyexports_validate(entries, allow_unlisted, module) ==
    LET found == all_exported(entries, module, 1)
        module_export_count == IF has_section(module, "Export")
                               THEN Len(get_section(module, "Export").entries)
                               ELSE 0
    IN  CASE found = "panic" -> Panic
          [] found = "false" -> OkFalse
          [] OTHER -> IF Len(entries) # module_export_count THEN OkBool(allow_unlisted)
                      ELSE OkTrue

\* ------------------------------------------------------------------------
\* deployer
\* ------------------------------------------------------------------------
\* A byte string is a sequence of runs; Run(b, n) stands for n bytes b, so
\* that a payload of several pages stays small. Payload lengths stay below
\* 2^31, where `as u32` and `as i32` keep the value of payload.len().
Run(byte, count) == [byte |-> byte, count |-> count]

\* <[u8]>::len
RECURSIVE ByteLen(_)
ByteLen(bytes) == IF bytes = <<>> THEN 0 ELSE bytes[1].count + ByteLen(Tail(bytes))

\* WriteBytesExt::write_i32::<LittleEndian>(v): the four bytes of v, the
\* least significant first
write_i32_le(v) ==
    <<Run(v % 256, 1), Run((v \div 256) % 256, 1), Run((v \div 65536) % 256, 1),
      Run((v \div 16777216) % 256, 1)>>

\* an instruction with its operands
Instr(op, args) == <<op>> \o args

\* deployer_code(), deserialized: the wrapper module of the comment above it
deployer_code ==
    <<TypeSection(<<FunctionType(<<>>, "i32"), FunctionType(<<"i32", "i32", "i32">>, "none"),
                    FunctionType(<<"i32", "i32">>, "none"), FunctionType(<<>>, "none")>>),
      ImportSection(<<ImportEntry("ethereum", <<"getCodeSize">>, "func", 0),
                      ImportEntry("ethereum", <<"codeCopy">>, "func", 1),
                      ImportEntry("ethereum", <<"finish">>, "func", 2)>>),
      FunctionSection(<<FuncEntry(3)>>),
      MemorySection(1),
      ExportSection(<<ExportEntry(<<"memory">>, "memory", 0),
                      ExportEntry(<<"main">>, "func", 3)>>),
      CodeSection(<<FuncBody(<<Instr("Call", <<0>>), Instr("SetLocal", <<0>>),
                               Instr("I32Const", <<0>>), Instr("I32Const", <<0>>),
                               Instr("GetLocal", <<0>>), Instr("Call", <<1>>),
                               Instr("GetLocal", <<0>>), Instr("I32Const", <<4>>),
                               Instr("I32Sub", <<>>), Instr("I32Load", <<2, 0>>),
                               Instr("SetLocal", <<2>>),
                               Instr("GetLocal", <<0>>), Instr("I32Const", <<4>>),
                               Instr("I32Sub", <<>>), Instr("GetLocal", <<2>>),
                               Instr("I32Sub", <<>>), Instr("SetLocal", <<1>>),
                               Instr("GetLocal", <<1>>), Instr("GetLocal", <<2>>),
                               Instr("Call", <<2>>), Instr("End", <<>>)>>)>>)>>

\* the size of a page of linear memory
PageSize == 65536

\* memory_initial of both deployers
memory_initial(payload) == (ByteLen(payload) \div PageSize) + 1

\* module.memory_section_mut().unwrap().entries_mut()[0] = mem_type
set_memory_initial(module, pages) ==
    [i \in 1..Len(module) |->
        IF module[i].kind = "Memory" THEN MemorySection(pages) ELSE module[i]]

\* the wrapper with its memory left as it is
create_custom_deployer_fixed_memory(payload) ==
    deployer_code
    \o <<CustomSection("deployer", payload \o write_i32_le(ByteLen(payload)))>>

\* create_custom_deployer(payload)
create_custom_deployer(payload) ==
    set_memory_initial(deployer_code, memory_initial(payload))
    \o <<CustomSection("deployer", payload \o write_i32_le(ByteLen(payload)))>>

\* a data segment: its offset expression and its value
DataSegment(offset, value) == Entry("", <<>>, "data", 0, <<offset, value>>, "none")
DataSection(segments) == Section("Data", "", segments, 0)

\* create_memory_deployer(payload): what the builder produces
create_memory_deployer(payload) ==
    <<TypeSection(<<FunctionType(<<"i32", "i32">>, "none"), FunctionType(<<>>, "none")>>),
      ImportSection(<<ImportEntry("ethereum", <<"finish">>, "func", 0)>>),
      FunctionSection(<<FuncEntry(0), FuncEntry(1)>>),
      MemorySection(memory_initial(payload)),
      ExportSection(<<ExportEntry(<<"main">>, "func", 2),
                      ExportEntry(<<"memory">>, "memory", 0)>>),
      CodeSection(<<FuncBody(<<Instr("End", <<>>)>>),
                    FuncBody(<<Instr("I32Const", <<0>>),
                               Instr("I32Const", <<ByteLen(payload)>>),
                               Instr("Call", <<0>>), Instr("End", <<>>)>>)>>),
      DataSection(<<DataSegment(Instr("I32Const", <<0>>), payload)>>)>>

\* Deployer::with_preset(preset, payload) for the two presets it knows
Deployer(preset, payload) == [id |-> "deployer", mode |-> preset, payload |-> payload]

\* ModuleCreator::create
create(pass) ==
    IF pass.mode = "memory"
    THEN Outcome("Ok", create_memory_deployer(pass.payload))
    ELSE Outcome("Ok", create_custom_deployer(pass.payload))

\* ------------------------------------------------------------------------
\* A configured pass and the two forms of ModuleTranslator / ModuleValidator
\* ------------------------------------------------------------------------
BasePass(id) ==
    [id |-> id, mode |-> "", name |-> "", index |-> 0, interfaces |-> <<>>,
     entries |-> <<>>, require_all |-> FALSE, allow_unlisted |-> FALSE,
     start_required |-> FALSE, preset |-> ""]

\* DropSection::NamesSection, CustomSectionByName(name), CustomSectionByIndex(n),
\* UnknownSectionByIndex(n)
DropSection(mode, name, index) ==
    [BasePass("dropsection") EXCEPT !.mode = mode, !.name = name, !.index = index]
\* RemapImports { interfaces }
RemapImports(interfaces) == [BasePass("remapimports") EXCEPT !.interfaces = interfaces]
\* TrimExports::with_preset(preset)
TrimExports(preset) ==
    [BasePass("trimexports") EXCEPT !.preset = preset, !.entries = ExportWhitelist(preset)]
\* VerifyImports { entries, require_all, allow_unlisted }
VerifyImports(entries, require_all, allow_unlisted) ==
    [BasePass("verifyimports") EXCEPT !.entries = entries, !.require_all = require_all,
                                      !.allow_unlisted = allow_unlisted]
\* VerifyExports::with_preset("ewasm")
VerifyExports(preset) ==
    [BasePass("verifyexports") EXCEPT !.preset = preset, !.entries = VerifyExports_ewasm]
\* CheckStartFunc::new(is_start_required)
CheckStartFunc(start_required) ==
    [BasePass("checkstartfunc") EXCEPT !.start_required = start_required]

InplaceTranslators == {"dropsection", "remapimports", "remapstart", "trimstartfunc",
                       "trimexports"}
FunctionalOnly == {"repack"}
Creators == {"deployer"}
Validators == {"checkfloat", "checkstartfunc", "verifyexports", "verifyimports"}

\* ModuleTranslator::translate_inplace of each pass
translate_inplace(pass, module) ==
    CASE pass.id = "dropsection" -> drop_section(pass, module)
      [] pass.id = "remapimports" -> remapimports_translate_inplace(pass.interfaces, module)
      [] pass.id = "remapstart" -> remap_start(module)
      [] pass.id = "trimstartfunc" -> trim_startfunc(module)
      [] pass.id = "trimexports" -> trim_exports(pass.entries, module)
      [] OTHER -> Outcome(ErrNotSupported, module)

\* ModuleTranslator::translate of each pass: "Some" with the new module,
\* "None", or an error; the argument is only read
translate(pass, module) ==
    CASE pass.id = "repack" -> [ret |-> "Some", module |-> repack_translate(module).module]
      [] pass.id = "trimstartfunc" -> [ret |-> ErrNotSupported, module |-> <<>>]
      [] pass.id \in InplaceTranslators ->
            LET o == translate_inplace(pass, module)
            IN  IF o.ret = OkTrue THEN [ret |-> "Some", module |-> o.module]
                ELSE [ret |-> "None", module |-> <<>>]
      [] OTHER -> [ret |-> ErrNotSupported, module |-> <<>>]

\* ModuleValidator::validate of each pass
validate(pass, module) ==
    CASE pass.id = "checkfloat" -> checkfloat_validate(module)
      [] pass.id = "checkstartfunc" -> checkstartfunc_validate(pass.start_required, module)
      [] pass.id = "verifyexports" ->
            verifyexports_validate(pass.entries, pass.allow_unlisted, module)
      [] pass.id = "verifyimports" -> verifyimports_validate(pass, module)

\* ------------------------------------------------------------------------
\* Input modules
\* ------------------------------------------------------------------------
\* type 0: () -> (), type 1: (i64) -> (), type 2: (i32, i32) -> ()
Types3 ==
    <<FunctionType(<<>>, "none"), FunctionType(<<"i64">>, "none"),
      FunctionType(<<"i32", "i32">>, "none")>>

ImportPool ==
    {ImportEntry("ethereum", <<"useGas">>, "func", 1),
     ImportEntry("ethereum", <<"useGas">>, "func", 0),
     ImportEntry("env", <<"ethereum_", "useGas">>, "func", 1),
     ImportEntry("ethereum", <<"storageStore">>, "func", 2),
     ImportEntry("env", <<"debug_", "print32">>, "func", 0),
     ImportEntry("env", <<"glob">>, "global", 0),
     ImportEntry("ethereum", <<"useGas">>, "global", 0)}

ExportPool ==
    {ExportEntry(<<"main">>, "func", 0), ExportEntry(<<"main">>, "func", 1),
     ExportEntry(<<"memory">>, "memory", 0), ExportEntry(<<"main">>, "global", 0),
     ExportEntry(<<"foo">>, "func", 0)}

CustomPool == {CustomSection("name", <<>>), NameSection, CustomSection("foo", <<>>)}

IntBody == FuncBody(<<"GetLocal", "GetLocal", "I32Add", "End">>)
F32Body == FuncBody(<<"GetLocal", "GetLocal", "F32Add", "End">>)
F64Body == FuncBody(<<"F64Const", "Drop", "End">>)

\* a module from its optional parts, in the order of the binary format; an
\* optional part is <<x>> when present and <<>> when absent
OptSection(opt, Make(_)) == IF opt = <<>> THEN <<>> ELSE <<Make(opt[1])>>
BuildModule(types, imports, funcs, exports, start, bodies, customs) ==
    OptSection(types, TypeSection)
    \o OptSection(imports, ImportSection)
    \o OptSection(funcs, FunctionSection)
    \o OptSection(exports, ExportSection)
    \o OptSection(start, StartSection)
    \o OptSection(bodies, CodeSection)
    \o customs

Some(x) == <<x>>
None == <<>>
OptionOf(S) == {Some(x) : x \in S} \cup {None}

TwoFuncs == <<FuncEntry(0), FuncEntry(0)>>
TwoBodies == <<IntBody, IntBody>>
MainAndMemory == <<ExportEntry(<<"main">>, "func", 0), ExportEntry(<<"memory">>, "memory", 0)>>

\* modules that differ in their import section, with and without a type section
ImportFamily ==
    {BuildModule(types, imports, Some(TwoFuncs), Some(MainAndMemory), None, Some(TwoBodies),
                 <<>>) :
        types \in OptionOf({Types3}),
        imports \in OptionOf(SeqsUpTo(ImportPool, MaxImports))}

\* modules that differ in their export and start sections
ExportFamily ==
    {BuildModule(Some(Types3), imports, Some(TwoFuncs), exports, start, Some(TwoBodies),
                 <<>>) :
        imports \in OptionOf({<<ImportEntry("ethereum", <<"useGas">>, "func", 1)>>}),
        exports \in OptionOf(SeqsUpTo(ExportPool, MaxExports)),
        start \in OptionOf({0, 1})}

\* modules that export main and memory and one thing more
ExtraExportFamily ==
    {BuildModule(Some(Types3), imports, Some(TwoFuncs), Some(MainAndMemory \o <<extra>>),
                 None, Some(TwoBodies), <<>>) :
        imports \in OptionOf({<<ImportEntry("ethereum", <<"useGas">>, "func", 1)>>}),
        extra \in ExportPool}

\* modules that differ in their custom sections: a tail of custom sections,
\* and possibly one custom section in front
CustomFamily ==
    {head \o BuildModule(Some(Types3), None, Some(TwoFuncs), Some(MainAndMemory), start,
                         Some(TwoBodies), tail) :
        head \in {<<>>, <<CustomSection("foo", <<>>)>>},
        start \in OptionOf({1}),
        tail \in SeqsUpTo(CustomPool, MaxCustoms)}

\* modules that differ in their code: none, integer only, floating point
CodeFamily ==
    {<<>>}
    \cup {BuildModule(Some(Types3), None, Some([i \in 1..Len(bodies) |-> FuncEntry(0)]), None,
                      None, Some(bodies), <<>>) :
            bodies \in {<<IntBody>>, <<F32Body>>, <<IntBody, F64Body>>}}

\* the instructions of the binary format by what they do and the value types
\* they work on (parity_wasm::elements::Instruction, named as checkfloat.rs
\* names them)
Ops(class, types, names) == {[name |-> n, class |-> class, types |-> types] : n \in names}
InstructionTable ==
    Ops("control", {},
        {"Unreachable", "Nop", "Block", "Loop", "If", "Else", "End", "Br", "BrIf", "BrTable",
         "Return", "Call", "CallIndirect"})
    \cup Ops("parametric", {}, {"Drop", "Select"})
    \cup Ops("variable", {}, {"GetLocal", "SetLocal", "TeeLocal", "GetGlobal", "SetGlobal"})
    \cup Ops("memory", {"i32"}, {"CurrentMemory", "GrowMemory"})
    \cup Ops("load", {"i32"},
             {"I32Load", "I32Load8S", "I32Load8U", "I32Load16S", "I32Load16U"})
    \cup Ops("load", {"i64"},
             {"I64Load", "I64Load8S", "I64Load8U", "I64Load16S", "I64Load16U", "I64Load32S",
              "I64Load32U"})
    \cup Ops("load", {"f32"}, {"F32Load"})
    \cup Ops("load", {"f64"}, {"F64Load"})
    \cup Ops("store", {"i32"}, {"I32Store", "I32Store8", "I32Store16"})
    \cup Ops("store", {"i64"}, {"I64Store", "I64Store8", "I64Store16", "I64Store32"})
    \cup Ops("store", {"f32"}, {"F32Store"})
    \cup Ops("store", {"f64"}, {"F64Store"})
    \cup Ops("constant", {"i32"}, {"I32Const"})
    \cup Ops("constant", {"i64"}, {"I64Const"})
    \cup Ops("constant", {"f32"}, {"F32Const"})
    \cup Ops("constant", {"f64"}, {"F64Const"})
    \cup Ops("comparison", {"i32"},
             {"I32Eqz", "I32Eq", "I32Ne", "I32LtS", "I32LtU", "I32GtS", "I32GtU", "I32LeS",
              "I32LeU", "I32GeS", "I32GeU"})
    \cup Ops("comparison", {"i64"},
             {"I64Eqz", "I64Eq", "I64Ne", "I64LtS", "I64LtU", "I64GtS", "I64GtU", "I64LeS",
              "I64LeU", "I64GeS", "I64GeU"})
    \cup Ops("comparison", {"f32"}, {"F32Eq", "F32Ne", "F32Lt", "F32Gt", "F32Le", "F32Ge"})
    \cup Ops("comparison", {"f64"}, {"F64Eq", "F64Ne", "F64Lt", "F64Gt", "F64Le", "F64Ge"})
    \cup Ops("arithmetic", {"i32"},
             {"I32Clz", "I32Ctz", "I32Popcnt", "I32Add", "I32Sub", "I32Mul", "I32DivS",
              "I32DivU", "I32RemS", "I32RemU", "I32And", "I32Or", "I32Xor", "I32Shl",
              "I32ShrS", "I32ShrU", "I32Rotl", "I32Rotr"})
    \cup Ops("arithmetic", {"i64"},
             {"I64Clz", "I64Ctz", "I64Popcnt", "I64Add", "I64Sub", "I64Mul", "I64DivS",
              "I64DivU", "I64RemS", "I64RemU", "I64And", "I64Or", "I64Xor", "I64Shl",
              "I64ShrS", "I64ShrU", "I64Rotl", "I64Rotr"})
    \cup Ops("arithmetic", {"f32"},
             {"F32Abs", "F32Neg", "F32Ceil", "F32Floor", "F32Trunc", "F32Nearest", "F32Sqrt",
              "F32Add", "F32Sub", "F32Mul", "F32Div", "F32Min", "F32Max", "F32Copysign"})
    \cup Ops("arithmetic", {"f64"},
             {"F64Abs", "F64Neg", "F64Ceil", "F64Floor", "F64Trunc", "F64Nearest", "F64Sqrt",
              "F64Add", "F64Sub", "F64Mul", "F64Div", "F64Min", "F64Max", "F64Copysign"})
    \cup Ops("conversion", {"i32", "i64"}, {"I32WrapI64", "I64ExtendSI32", "I64ExtendUI32"})
    \cup Ops("conversion", {"i32", "f32"},
             {"I32TruncSF32", "I32TruncUF32", "F32ConvertSI32", "F32ConvertUI32"})
    \cup Ops("conversion", {"i32", "f64"},
             {"I32TruncSF64", "I32TruncUF64", "F64ConvertSI32", "F64ConvertUI32"})
    \cup Ops("conversion", {"i64", "f32"},
             {"I64TruncSF32", "I64TruncUF32", "F32ConvertSI64", "F32ConvertUI64"})
    \cup Ops("conversion", {"i64", "f64"},
             {"I64TruncSF64", "I64TruncUF64", "F64ConvertSI64", "F64ConvertUI64"})
    \cup Ops("conversion", {"f32", "f64"}, {"F32DemoteF64", "F64PromoteF32"})
    \cup Ops("reinterpretation", {"i32", "f32"}, {"I32ReinterpretF32", "F32ReinterpretI32"})
    \cup Ops("reinterpretation", {"i64", "f64"}, {"I64ReinterpretF64", "F64ReinterpretI64"})

\* modules of one function, or of two, in which one instruction of the table
\* stands between two others
InstructionFamily ==
    {BuildModule(Some(Types3), None, Some(<<FuncEntry(0)>>), None, None,
                 Some(<<FuncBody(<<"GetLocal", r.name, "End">>)>>), <<>>) :
        r \in InstructionTable}
    \cup {BuildModule(Some(Types3), None, Some(TwoFuncs), None, None,
                      Some(<<IntBody, FuncBody(<<"Nop", r.name, "Drop", "End">>)>>), <<>>) :
            r \in {t \in InstructionTable : t.class \in {"conversion", "reinterpretation"}}}

Modules ==
    ImportFamily \cup ExportFamily \cup ExtraExportFamily \cup CustomFamily \cup CodeFamily

\* ------------------------------------------------------------------------
\* Pass instances
\* ------------------------------------------------------------------------
MaxDropIndex == 7

\* the list of the all_required_imports tests, and one with a listed global
StorageStoreOnly == <<ImportFunc("ethereum", <<"storageStore">>, <<"i32", "i32">>, "none")>>
UseGasAndGlob ==
    <<ImportFunc("ethereum", <<"useGas">>, <<"i64">>, "none"), ImportGlobal("env", <<"glob">>)>>

PassInstances ==
    {DropSection("names", "", 0)}
    \cup {DropSection("custom_by_name", n, 0) : n \in {"name", "foo"}}
    \cup {DropSection(mode, "", n) : mode \in {"custom_by_index", "unknown_by_index"},
                                     n \in 0..MaxDropIndex}
    \cup {RemapImports(<<PresetInterface("ewasm")>>),
          RemapImports(<<PresetInterface("debug")>>),
          RemapImports(<<PresetInterface("debug"), PresetInterface("ewasm")>>),
          RemapImports(<<ImportInterface(ImportList("ewasm"), FALSE, <<>>)>>)}
    \cup {BasePass("remapstart"), BasePass("trimstartfunc"), BasePass("repack"),
          BasePass("checkfloat")}
    \cup {TrimExports(preset) : preset \in {"ewasm", "pwasm"}}
    \cup {VerifyImports(entries, ra, au) :
            entries \in {VerifyImports_ewasm, StorageStoreOnly, UseGasAndGlob},
            ra \in BOOLEAN, au \in BOOLEAN}
    \cup {VerifyExports("ewasm"), [VerifyExports("ewasm") EXCEPT !.allow_unlisted = TRUE]}
    \cup {CheckStartFunc(b) : b \in BOOLEAN}

\* payloads of the deployer: the three of its tests (empty, eight bytes,
\* 632232 zero bytes) and payloads whose lengths lie around a page boundary
MaxPayloadLen == 1073741823
PayloadLengths == {1, 8, 65535, 65536, 65537, 131071, 131072, 632232, MaxPayloadLen}
NonzeroPayload ==
    <<Run(128, 1), Run(255, 1), Run(0, 1), Run(127, 1), Run(170, 1), Run(85, 1), Run(0, 1),
      Run(17, 1)>>
Payloads ==
    {<<>>, NonzeroPayload, <<Run(1, 65535), Run(2, 1)>>}
    \cup {<<Run(b, n)>> : b \in {0, 255}, n \in PayloadLengths}

DeployerInstances ==
    {Deployer(preset, payload) : preset \in {"memory", "customsection"}, payload \in Payloads}

\* ------------------------------------------------------------------------
\* Driver: configuration, results and errors (driver.rs, result.rs)
\* ------------------------------------------------------------------------
\* ModuleConfig: a pass name with the options the driver reads; an option is
\* <<value>> when set and <<>> when absent. A preset value is the list of the
\* names between its commas.
ModuleConfig(name, preset, require_start) ==
    [name |-> name, preset |-> preset, require_start |-> require_start]

\* a ruleset of the configuration: its name, its `file` and `output` options
\* and its passes in order
Ruleset(name, file, output, modules) ==
    [name |-> name, file |-> file, output |-> output, modules |-> modules]

\* DriverError
NoError == [kind |-> "", object |-> "", info |-> ""]
MissingRequiredField(object, field) ==
    [kind |-> "MissingRequiredField", object |-> object, info |-> field]
ModuleNotFound(name) == [kind |-> "ModuleNotFound", object |-> name, info |-> ""]
InvalidField(object, field) == [kind |-> "InvalidField", object |-> object, info |-> field]
PathResolution(object, path) == [kind |-> "PathResolution", object |-> object, info |-> path]
Internal(object, info) == [kind |-> "Internal", object |-> object, info |-> info]

\* DriverState
Ready == [tag |-> "Ready", error |-> NoError, results |-> <<>>]
Error(error, results) == [tag |-> "Error", error |-> error, results |-> results]
Done(results) == [tag |-> "Done", error |-> NoError, results |-> results]

\* ModuleResult::Creator / Translator / Validator (name, result)
ModuleResult(tag, name, ret) == [tag |-> tag, name |-> name, ret |-> ret]
NoResult == ModuleResult("", "", "")

\* RulesetResult::new(name), with the output path set and no output module
RulesetResult(name, output_path) ==
    [name |-> name, output_path |-> output_path, output_module |-> <<>>, results |-> <<>>]

\* what execute_module hands back: Ok(result) with the working module as the
\* pass left it, Err(error), or a panic
Executed(result, wasm) ==
    [status |-> "Ok", error |-> NoError, result |-> result, wasm |-> wasm]
Failed(error) == [status |-> "Err", error |-> error, result |-> NoResult, wasm |-> <<>>]
Unwound == [status |-> "panic", error |-> NoError, result |-> NoResult, wasm |-> <<>>]

\* ------------------------------------------------------------------------
\* Driver: the passes behind execute_module
\* ------------------------------------------------------------------------
\* what a back-end outside the repository (wasm-snip, binaryen, the deployer
\* of the driver's libchisel) can hand back to its arm of execute_module
BackendResult(ret, new_wasm) == [ret |-> ret, module |-> new_wasm]
NoBackend == BackendResult("", <<>>)
BackendModules == {<<>>, <<TypeSection(<<FunctionType(<<>>, "none")>>)>>}
Backend(name) ==
    CASE name \in {"snip", "binaryenopt"} ->
            {BackendResult("Some", m) : m \in BackendModules}
            \cup {BackendResult(ErrCustom, <<>>)}
      [] name = "deployer" ->
            {BackendResult("Some", m) : m \in BackendModules}
            \cup {BackendResult("None", <<>>), BackendResult(ErrCustom, <<>>)}
      [] OTHER -> {NoBackend}

\* an arm that replaces the working module without reporting it
did_mutate_unreported(name, translated, wasm) ==
    IF translated.ret = "Some"
    THEN Executed(ModuleResult("Translator", name, OkFalse), translated.module)
    ELSE Executed(ModuleResult("Translator", name, OkFalse), wasm)

\* the `did_mutate` blocks: Some(new_wasm) replaces the working module
did_mutate(name, translated, wasm) ==
    IF translated.ret = "Some"
    THEN Executed(ModuleResult("Translator", name, OkTrue), translated.module)
    ELSE Executed(ModuleResult("Translator", name, OkFalse), wasm)

\* ModuleResult::Translator(name, p.translate_inplace(wasm))
inplace_result(name, p, wasm) ==
    LET o == translate_inplace(p, wasm)
    IN  Executed(ModuleResult("Translator", name, o.ret), o.module)

\* a validator arm that hands back an emptied working module
validator_result_touching_module(name, v, wasm) ==
    LET ret == validate(v, wasm)
    IN  IF ret = Panic THEN Unwound
        ELSE Executed(ModuleResult("Validator", name, ret), <<>>)

\* ModuleResult::Validator(name, v.validate(wasm)); a panic unwinds
validator_result(name, v, wasm) ==
    LET ret == validate(v, wasm)
    IN  IF ret = Panic THEN Unwound
        ELSE Executed(ModuleResult("Validator", name, ret), wasm)

\* a snip arm that records the failure of snip as its outcome
snip_result_recording_failure(name, translated, wasm) ==
    IF translated.ret = "Some" THEN did_mutate(name, translated, wasm)
    ELSE Executed(ModuleResult("Translator", name, translated.ret), wasm)

\* the arm of snip: a failure of translate is returned as
\* DriverError::Internal
snip_result(name, translated, wasm) ==
    IF translated.ret = "Some" THEN did_mutate(name, translated, wasm)
    ELSE Failed(Internal("snip", "Chisel module failed"))

\* RemapImports::with_preset: every name of the list is a known preset
remapimports_with_preset(preset) ==
    IF \A k \in 1..Len(preset) : preset[k] \in RemapPresets THEN <<TRUE>> ELSE <<>>
\* the interfaces it builds, one for each name
remapimports_interfaces(preset) ==
    [k \in 1..Len(preset) |->
        PresetInterface(IF preset[k] \in RemapPresets THEN preset[k] ELSE "ewasm")]

DeployerPresets == {"memory", "customsection"}
BinaryenPresets == {"O0", "O1", "O2", "O3", "O4", "Os", "Oz"}

\* what an arm of execute_module builds before it runs the pass: the pass,
\* or the error the arm returns for an option that is absent or invalid
Built(p) == [error |-> NoError, pass |-> p]
NotBuilt(error) == [error |-> error, pass |-> BasePass("")]

\* the arms that read `preset` and build the pass with with_preset
with_preset(name, config, known, p) ==
    IF config.preset # <<>>
    THEN IF known THEN Built(p) ELSE NotBuilt(InvalidField(name, "preset"))
    ELSE NotBuilt(MissingRequiredField(name, "preset"))

\* the first value of an option, "" when the option is absent
preset_of(config) == IF config.preset # <<>> THEN config.preset[1] ELSE <<"">>
require_start_of(config) ==
    IF config.require_start # <<>> THEN config.require_start[1] ELSE ""

\* execute_module, the pass each arm builds; `binaryen` says whether the
\* build has the feature of that name
build(name, config, binaryen) ==
    CASE name = "checkfloat" -> Built(BasePass("checkfloat"))
      [] name = "checkstartfunc" ->
            IF config.require_start # <<>>
            THEN IF require_start_of(config) \in {"true", "false"}
                 THEN Built(CheckStartFunc(require_start_of(config) = "true"))
                 ELSE NotBuilt(InvalidField(name, "require_start"))
            ELSE NotBuilt(MissingRequiredField(name, "require_start"))
      [] name = "deployer" ->
            with_preset(name, config,
                        Len(preset_of(config)) = 1 /\ preset_of(config)[1] \in DeployerPresets,
                        BasePass("deployer"))
      [] name = "dropnames" -> Built(DropSection("names", "", 0))
      [] name = "remapimports" ->
            with_preset(name, config, remapimports_with_preset(preset_of(config)) # <<>>,
                        RemapImports(remapimports_interfaces(preset_of(config))))
      [] name = "remapstart" -> Built(BasePass("remapstart"))
      [] name = "repack" -> Built(BasePass("repack"))
      [] name = "snip" -> Built(BasePass("snip"))
      [] name = "trimexports" ->
            with_preset(name, config, preset_of(config) \in {<<"ewasm">>, <<"pwasm">>},
                        TrimExports(preset_of(config)[1]))
      [] name = "trimstartfunc" -> Built(BasePass("trimstartfunc"))
      [] name = "verifyexports" ->
            with_preset(name, config, preset_of(config) = <<"ewasm">>, VerifyExports("ewasm"))
      [] name = "verifyimports" ->
            with_preset(name, config, preset_of(config) = <<"ewasm">>,
                        VerifyImports(VerifyImports_ewasm, FALSE, FALSE))
      [] name = "binaryenopt" /\ binaryen ->
            with_preset(name, config,
                        Len(preset_of(config)) = 1 /\ preset_of(config)[1] \in BinaryenPresets,
                        BasePass("binaryenopt"))
      [] OTHER -> NotBuilt(ModuleNotFound(name))

\* execute_module, the arm runs the pass it built; `backend` is what an
\* external back-end hands back
run(name, b, wasm, backend) ==
    CASE b.error # NoError -> Failed(b.error)
      [] name \in Validators -> validator_result(name, b.pass, wasm)
      [] name \in {"dropnames", "remapimports", "remapstart", "trimexports",
                   "trimstartfunc"} -> inplace_result(name, b.pass, wasm)
      [] name = "repack" ->
            did_mutate(name, BackendResult("Some", repack_translate(wasm).module), wasm)
      [] name = "snip" -> snip_result(name, backend, wasm)
      [] OTHER ->
            IF backend.ret \in {"Some", "None"} THEN did_mutate(name, backend, wasm)
            ELSE Executed(ModuleResult("Translator", name, backend.ret), wasm)

\* ChiselDriver::execute_module
execute_module(name, config, wasm, binaryen, backend) ==
    run(name, build(name, config, binaryen), wasm, backend)

\* ------------------------------------------------------------------------
\* Driver: loading the input of a ruleset
\* ------------------------------------------------------------------------
\* a file of the environment: the canonical form of its path (<<>> when
\* canonicalize fails), whether read succeeds, whether wat::parse_bytes
\* accepts the bytes, whether they decode, and the module they decode to
File(canonical, readable, text, decodes, contents) ==
    [canonical |-> canonical, readable |-> readable, text |-> text, decodes |-> decodes,
     contents |-> contents]

\* the module of a.wasm: imports useGas, exports main and memory
ModuleA ==
    BuildModule(Some(Types3), Some(<<ImportEntry("ethereum", <<"useGas">>, "func", 1)>>),
                Some(TwoFuncs),
                Some(<<ExportEntry(<<"main">>, "func", 1),
                       ExportEntry(<<"memory">>, "memory", 0)>>),
                None, Some(TwoBodies), <<>>)

\* the module of b.wasm: a prefixed import, a start function, an export more
\* than ewasm allows, floating point code and a name section in raw form
ModuleB ==
    BuildModule(Some(Types3),
                Some(<<ImportEntry("env", <<"ethereum_", "useGas">>, "func", 1)>>),
                Some(TwoFuncs),
                Some(<<ExportEntry(<<"main">>, "func", 1),
                       ExportEntry(<<"memory">>, "memory", 0),
                       ExportEntry(<<"foo">>, "func", 2)>>),
                Some(2), Some(<<IntBody, F32Body>>), <<CustomSection("name", <<>>)>>)

\* a module whose name section does not parse
ModuleBadNames == <<CustomSection("name", <<"malformed">>)>>

FileSystem(path) ==
    CASE path = "a.wasm" -> File(<<"/work/a.wasm">>, TRUE, TRUE, TRUE, ModuleA)
      [] path = "b.wasm" -> File(<<"/work/b.wasm">>, TRUE, TRUE, TRUE, ModuleB)
      [] path = "empty.wasm" -> File(<<"/work/empty.wasm">>, TRUE, TRUE, TRUE, <<>>)
      [] path = "dir" -> File(<<"/work/dir">>, FALSE, FALSE, FALSE, <<>>)
      [] path = "bad.wat" -> File(<<"/work/bad.wat">>, TRUE, FALSE, FALSE, <<>>)
      [] path = "bad.wasm" -> File(<<"/work/bad.wasm">>, TRUE, TRUE, FALSE, <<>>)
      [] path = "badnames.wasm" ->
            File(<<"/work/badnames.wasm">>, TRUE, TRUE, TRUE, ModuleBadNames)
      [] OTHER -> File(<<>>, FALSE, FALSE, FALSE, <<>>)

\* Module::parse_names: every custom section called "name" is replaced by
\* its parsed form; Err when one of them does not parse
parse_names(wasm) ==
    [err |-> \E i \in 1..Len(wasm) : /\ wasm[i].kind = "Custom" /\ wasm[i].name = "name"
                                     /\ wasm[i].payload # <<>>,
     module |-> [i \in 1..Len(wasm) |->
                    IF wasm[i].kind = "Custom" /\ wasm[i].name = "name"
                       /\ wasm[i].payload = <<>>
                    THEN NameSection ELSE wasm[i]]]

\* what the head of the ruleset loop of fire comes to
Loaded(output_path, wasm) ==
    [status |-> "Ok", error |-> NoError, output_path |-> output_path, wasm |-> wasm]
NotLoaded(error) == [status |-> "Err", error |-> error, output_path |-> "", wasm |-> <<>>]
LoadUnwound == [status |-> "panic", error |-> NoError, output_path |-> "", wasm |-> <<>>]

\* fire, from "Load binary" to the deserialized module with its names parsed
load(name, ruleset) ==
    IF ruleset.file = <<>> THEN NotLoaded(MissingRequiredField(name, "file"))
    ELSE LET binary_path == ruleset.file[1]
             file == FileSystem(binary_path)
         IN  IF file.canonical = <<>> THEN NotLoaded(PathResolution(name, binary_path))
             ELSE IF ~file.readable THEN NotLoaded(Internal(name, "Failed to load file"))
             ELSE IF ~file.text
                  THEN NotLoaded(Internal(name, "Failed to parse input as text"))
             ELSE IF ~file.decodes THEN NotLoaded(Internal(name, "Deserialization failure"))
             ELSE IF parse_names(file.contents).err THEN LoadUnwound
             ELSE Loaded(IF ruleset.output # <<>> THEN ruleset.output[1]
                         ELSE file.canonical[1],
                         parse_names(file.contents).module)

\* ------------------------------------------------------------------------
\* Driver: configurations
\* ------------------------------------------------------------------------
NoOptions(name) == ModuleConfig(name, None, None)
WithPreset(name, preset) == ModuleConfig(name, Some(preset), None)

\* every arm of execute_module, with its option absent, valid and invalid
PassConfigs ==
    {NoOptions(name) :
        name \in {"checkfloat", "checkstartfunc", "deployer", "dropnames", "dropsection",
                  "remapimports", "remapstart", "repack", "snip", "trimexports",
                  "trimstartfunc", "verifyexports", "verifyimports", "binaryenopt", "foo"}}
    \cup {ModuleConfig("checkstartfunc", None, Some(v)) : v \in {"true", "false", "maybe"}}
    \cup {WithPreset("deployer", <<p>>) : p \in {"memory", "customsection", "bogus"}}
    \cup {WithPreset("remapimports", p) :
            p \in {<<"ewasm">>, <<"debug", "ewasm">>, <<"ewasm", "bogus">>}}
    \cup {WithPreset(name, <<p>>) :
            name \in {"remapstart", "trimstartfunc", "verifyexports", "verifyimports"},
            p \in {"ewasm", "bogus"}}
    \cup {WithPreset("trimexports", <<p>>) : p \in {"ewasm", "pwasm", "bogus"}}
    \cup {WithPreset("binaryenopt", <<p>>) : p \in {"O2", "bogus"}}

\* the passes that are combined into longer rulesets
CorePasses ==
    {NoOptions("checkfloat"), NoOptions("remapstart"), NoOptions("repack"),
     NoOptions("dropnames"), NoOptions("foo"), WithPreset("trimexports", <<"ewasm">>),
     WithPreset("verifyimports", <<"ewasm">>)}

GoodFiles == {"a.wasm", "b.wasm", "empty.wasm"}
BadFiles == {"missing.wasm", "dir", "bad.wat", "bad.wasm", "badnames.wasm"}

\* the names of the rulesets of a configuration, by position
RulesetNames == <<"r1", "r2", "r3", "r4", "r5">>

\* one ruleset, every pass configuration and every file
DispatchConfigs ==
    {<<Ruleset(RulesetNames[1], Some(file), None, modules)>> :
        file \in GoodFiles,
        modules \in {<<m>> : m \in PassConfigs} \cup SeqsUpTo(CorePasses, MaxPasses)}
    \cup {<<Ruleset(RulesetNames[1], file, None, <<NoOptions("checkfloat")>>)>> :
            file \in OptionOf(BadFiles)}

\* rulesets that complete, with and without a change, and rulesets that fail
RulesetPool ==
    {Ruleset("", Some("a.wasm"), None, <<NoOptions("checkfloat")>>),
     Ruleset("", Some("b.wasm"), Some("out.wasm"),
             <<NoOptions("remapstart"), WithPreset("verifyexports", <<"ewasm">>)>>),
     Ruleset("", None, None, <<NoOptions("checkfloat")>>),
     Ruleset("", Some("a.wasm"), None, <<NoOptions("checkfloat"), NoOptions("foo")>>),
     Ruleset("", Some("badnames.wasm"), None, <<>>)}

\* several rulesets, named by their position
SeqConfigs ==
    {[i \in 1..Len(c) |-> [c[i] EXCEPT !.name = RulesetNames[i]]] :
        c \in SeqsUpTo(RulesetPool, MaxRulesets)}

Configs == DispatchConfigs \cup SeqConfigs

\* ------------------------------------------------------------------------
\* Driver: the steps of fire
\* ------------------------------------------------------------------------
\* a fire that starts from no results in every state
previous_result_forgotten(driver_state) ==
    <<>>

\* the results fire starts from: none in Ready, those of the Error state
previous_result(driver_state) ==
    IF driver_state.tag = "Ready" THEN <<>> ELSE driver_state.results

\* a fire that sets the output module after every Ok(true)
record_result_of_any_kind(rr, module_result, wasm) ==
    [rr EXCEPT !.output_module = IF module_result.ret = OkTrue THEN <<wasm>> ELSE @,
               !.results = Append(@, module_result)]

\* fire, after execute_module returned Ok: the output module is set when a
\* creator or translator returned Ok(true), and the result is pushed
record_result(rr, module_result, wasm) ==
    [rr EXCEPT !.output_module =
                    IF module_result.tag \in {"Creator", "Translator"}
                       /\ module_result.ret = OkTrue
                    THEN <<wasm>> ELSE @,
               !.results = Append(@, module_result)]

\* ------------------------------------------------------------------------
\* Writing the output of a ruleset (result.rs)
\* ------------------------------------------------------------------------
\* module.to_bytes(), hex::encode of them, wabt::wasm2wat of them
Encoded(format, module) == [format |-> format, module |-> module]

\* what a call of std::fs::write leaves: a file with the data, or nothing
FileWritten(path, data) == [path |-> path, data |-> data]

\* the paths ChiselOutputWriter::write refuses raw binary for
StandardStreams == {"/dev/stdout", "/dev/stderr"}

WriterOutcome(ret, files) == [ret |-> ret, files |-> files]
\* the errors of write: "invalid mode", the refusal of raw binary on a
\* standard stream, a failure to encode, a failure of std::fs::write
ErrInvalidMode == "Err(invalid mode)"
ErrRawBinary == "Err(cannot write raw binary to a standard stream)"
ErrEncode == "Err(encode)"
ErrIo == "Err(io)"
WriteErrs == {ErrInvalidMode, ErrRawBinary, ErrEncode, ErrIo}

\* ChiselOutputWriter::write without the look at the path
writer_write_to_any_path(writer, encodes, fs) ==
    IF ~encodes THEN WriterOutcome(ErrEncode, <<>>)
    ELSE IF fs = "failed" THEN WriterOutcome(ErrIo, <<>>)
    ELSE IF fs = "partial"
         THEN WriterOutcome(ErrIo, <<FileWritten(writer.path, Encoded("truncated", <<>>))>>)
    ELSE WriterOutcome("Ok",
                       <<FileWritten(writer.path, Encoded(writer.format, writer.module))>>)

\* ChiselOutputWriter::write of Bin, Hex or Wat(module, path); encodes tells
\* whether to_bytes (and wasm2wat) succeed, fs how std::fs::write ends
writer_write(writer, encodes, fs) ==
    IF writer.format = "bin" /\ writer.path \in StandardStreams
    THEN WriterOutcome(ErrRawBinary, <<>>)
    ELSE IF ~encodes THEN WriterOutcome(ErrEncode, <<>>)
    ELSE IF fs = "failed" THEN WriterOutcome(ErrIo, <<>>)
    ELSE IF fs = "partial"
         THEN WriterOutcome(ErrIo, <<FileWritten(writer.path, Encoded("truncated", <<>>))>>)
    ELSE WriterOutcome("Ok",
                       <<FileWritten(writer.path, Encoded(writer.format, writer.module))>>)

\* the match on mode of RulesetResult::write: the writer, or None
writer_for(mode, module, path, wabt_feature) ==
    IF mode \in {"bin", "hex"} \/ (mode = "wat" /\ wabt_feature)
    THEN Some([format |-> mode, module |-> module, path |-> path])
    ELSE None

WriteOutcome(ret, rr, files) == [ret |-> ret, result |-> rr, files |-> files]

\* RulesetResult::write that reads output_module and leaves it in place
rulesetresult_write_keeping_module(rr, mode, wabt_feature, encodes, fs) ==
    IF rr.output_module = <<>> THEN WriteOutcome(OkFalse, rr, <<>>)
    ELSE LET writer == writer_for(mode, rr.output_module[1], rr.output_path, wabt_feature)
         IN  IF writer = None THEN WriteOutcome(ErrInvalidMode, rr, <<>>)
             ELSE LET w == writer_write(writer[1], encodes, fs)
                  IN  WriteOutcome(IF w.ret = "Ok" THEN OkTrue ELSE w.ret, rr,
                                   w.files)

\* RulesetResult::write(mode)
rulesetresult_write(rr, mode, wabt_feature, encodes, fs) ==
    IF rr.output_module = <<>> THEN WriteOutcome(OkFalse, rr, <<>>)
    ELSE LET taken_from == [rr EXCEPT !.output_module = <<>>]
             writer == writer_for(mode, rr.output_module[1], rr.output_path, wabt_feature)
         IN  IF writer = None THEN WriteOutcome(ErrInvalidMode, taken_from, <<>>)
             ELSE LET w == writer_write(writer[1], encodes, fs)
                  IN  WriteOutcome(IF w.ret = "Ok" THEN OkTrue ELSE w.ret,
                                   taken_from, w.files)

\* the results write is called on: what the driver leaves (a name, an output
\* path, an output module or none), and the modes it is called with
MaxWrites == 3
WriteModes == {"bin", "hex", "wat", "foo"}
OutputPaths == {"/dev/stdout", "/dev/stderr", "out.wasm", ""}
WriteTargets ==
    {[RulesetResult("Test", path) EXCEPT !.output_module = om] :
        path \in OutputPaths, om \in OptionOf({<<>>, ModuleA, ModuleB})}

\* ------------------------------------------------------------------------
\* Building a pass from an option map (ChiselModule::with_config)
\* ------------------------------------------------------------------------
\* an option map is a function from the keys it holds to their values
HasOption(config, key) == key \in DOMAIN config

PassBuilt(ret, p) == [ret |-> ret, pass |-> p]
PassNotBuilt(err) == PassBuilt(err, BasePass(""))

\* str::parse::<usize> of the values the option maps hold
parse_usize(val) ==
    CASE val = "0" -> Some(0)
      [] val = "1" -> Some(1)
      [] OTHER -> None

\* check_bool_option(config, option, default)
check_bool_option(config, option, default) ==
    IF HasOption(config, option) THEN config[option] = "true" ELSE default

\* CheckStartFunc::with_config
checkstartfunc_with_config(config) ==
    PassBuilt("Ok", CheckStartFunc(check_bool_option(config, "require_start", FALSE)))

\* DropSection::with_config; first is the entry config.iter().next() yields
dropsection_with_config(config, first) ==
    IF DOMAIN config = {} THEN PassNotBuilt(ErrNotFound)
    ELSE CASE first = "names" -> PassBuilt("Ok", DropSection("names", "", 0))
           [] first = "custom_by_name" ->
                PassBuilt("Ok", DropSection("custom_by_name", config[first], 0))
           [] first \in {"custom_by_index", "unknown_by_index"} ->
                IF parse_usize(config[first]) = None THEN PassNotBuilt(ErrCustom)
                ELSE PassBuilt("Ok", DropSection(first, "", parse_usize(config[first])[1]))
           [] OTHER -> PassNotBuilt(ErrNotSupported)

\* with_config of RemapStart, TrimStartFunc and BinaryenOptimiser:
\* with_preset of the option `preset`, which accepts the names of known
preset_with_config(id, config, known) ==
    IF HasOption(config, "preset")
    THEN IF config["preset"] \in known
         THEN PassBuilt("Ok", [BasePass(id) EXCEPT !.preset = config["preset"]])
         ELSE PassNotBuilt(ErrNotSupported)
    ELSE PassNotBuilt(ErrNotSupported)

\* Snip::with_config
snip_with_config(config) ==
    PassBuilt("Ok", [BasePass("snip") EXCEPT !.entries =
                        <<check_bool_option(config, "snip_rust_fmt_code", TRUE),
                          check_bool_option(config, "snip_rust_panicking_code", TRUE),
                          check_bool_option(config, "skip_producers_section", TRUE)>>])

\* the passes that have a with_config
ConfigurablePasses ==
    {"binaryenopt", "checkfloat", "checkstartfunc", "dropsection", "remapstart", "snip",
     "trimstartfunc"}

\* <pass>::with_config(config)
with_config(id, config, first) ==
    CASE id = "binaryenopt" -> preset_with_config(id, config, BinaryenPresets)
      [] id = "checkfloat" -> PassNotBuilt(ErrNotSupported)
      [] id = "checkstartfunc" -> checkstartfunc_with_config(config)
      [] id = "dropsection" -> dropsection_with_config(config, first)
      [] id = "remapstart" -> preset_with_config(id, config, {"ewasm"})
      [] id = "snip" -> snip_with_config(config)
      [] id = "trimstartfunc" -> preset_with_config(id, config, {"ewasm"})

\* option maps of at most MaxOptions entries
MaxOptions == 2
OptionKeys ==
    {"preset", "require_start", "names", "custom_by_name", "custom_by_index",
     "unknown_by_index", "snip_rust_fmt_code", "foo"}
OptionValues(key) ==
    CASE key = "preset" -> {"ewasm", "O2", "bogus"}
      [] key = "require_start" -> {"true", "false"}
      [] key = "custom_by_name" -> {"name"}
      [] key \in {"custom_by_index", "unknown_by_index"} -> {"0", "1", "x"}
      [] key = "snip_rust_fmt_code" -> {"true", "false"}
      [] OTHER -> {""}
OptionMaps ==
    UNION {{config \in [keys -> UNION {OptionValues(k) : k \in OptionKeys}] :
                \A k \in keys : config[k] \in OptionValues(k)} :
            keys \in {s \in SUBSET OptionKeys : Cardinality(s) <= MaxOptions}}

\* ------------------------------------------------------------------------
\* Config-driven mode (main.rs)
\* ------------------------------------------------------------------------
ModuleContext(module_name, preset) == [module_name |-> module_name, preset |-> preset]
ChiselContext(ruleset_name, file, outfile, modules) ==
    [ruleset_name |-> ruleset_name, file |-> file, outfile |-> outfile, modules |-> modules]

ErrTranslationFailed == "Err(Module translation failed)"
ErrInvalidPreset == "Err(Invalid preset)"
ErrModuleNotFound == "Err(Module Not Found)"

\* translate_module: translate_inplace, and translate when that fails
translate_module(translator, module) ==
    CHOOSE o \in
        {IF inplace.ret \in {OkTrue, OkFalse, Panic} THEN inplace
         ELSE CHOOSE t \in
                {CASE new_module.ret = "Some" -> Outcome(OkTrue, new_module.module)
                   [] new_module.ret = "None" -> Outcome(OkFalse, inplace.module)
                   [] OTHER -> Outcome(ErrTranslationFailed, inplace.module) :
                        new_module \in {translate(translator, inplace.module)}} : TRUE :
            inplace \in {translate_inplace(translator, module)}} : TRUE

\* what execute_module comes to: the value of `ret` (or a panic), the flag
\* is_translator and the module it leaves
ModuleRun(name, ret, is_translator, module) ==
    [name |-> name, ret |-> ret, is_translator |-> is_translator, module |-> module]

\* chisel.validate(module).unwrap_or(false)
validate_or_false(name, validator, module) ==
    CHOOSE r \in {ModuleRun(name, IF ret \in {OkTrue, Panic} THEN ret ELSE OkFalse, FALSE,
                            module) : ret \in {validate(validator, module)}} : TRUE

\* an arm of execute_module that translates
translate_arm(name, known, translator, module) ==
    IF known
    THEN CHOOSE r \in {ModuleRun(name, o.ret, TRUE, o.module) :
                            o \in {translate_module(translator, module)}} : TRUE
    ELSE ModuleRun(name, ErrInvalidPreset, TRUE, module)

\* execute_module(context, module) of main.rs; payload_len is the length of
\* the serialized module, whose bytes stand as zeros in the payload
main_execute_module(context, module, payload_len) ==
    LET name == context.module_name
        preset == context.preset
    IN  CASE name = "verifyexports" ->
                IF preset = "ewasm" THEN validate_or_false(name, VerifyExports("ewasm"), module)
                ELSE ModuleRun(name, ErrInvalidPreset, FALSE, module)
          [] name = "verifyimports" ->
                IF preset = "ewasm"
                THEN validate_or_false(name, VerifyImports(VerifyImports_ewasm, FALSE, FALSE),
                                       module)
                ELSE ModuleRun(name, ErrInvalidPreset, FALSE, module)
          [] name = "checkstartfunc" -> validate_or_false(name, CheckStartFunc(FALSE), module)
          [] name = "trimexports" ->
                translate_arm(name, preset \in {"ewasm", "pwasm"},
                              TrimExports(IF preset = "pwasm" THEN preset ELSE "ewasm"), module)
          [] name = "remapimports" ->
                translate_arm(name, remapimports_with_preset(<<preset>>) # <<>>,
                              RemapImports(remapimports_interfaces(<<preset>>)), module)
          [] name = "deployer" ->
                IF preset \in DeployerPresets
                THEN ModuleRun(name, OkTrue, TRUE,
                               create(Deployer(preset, <<Run(0, payload_len)>>)).module)
                ELSE ModuleRun(name, ErrInvalidPreset, TRUE, module)
          [] OTHER -> ModuleRun(name, ErrModuleNotFound, FALSE, module)

\* the map over the modules of a ruleset in chisel_execute: the runs, oldest
\* first, up to the first that panics
RECURSIVE run_modules(_, _, _, _)
run_modules(modules, module, payload_len, runs) ==
    IF modules = <<>> THEN runs
    ELSE CHOOSE all \in
            {IF r.ret = Panic THEN Append(runs, r)
             ELSE run_modules(Tail(modules), r.module, payload_len, Append(runs, r)) :
                r \in {main_execute_module(modules[1], module, payload_len)}} : TRUE

\* what chisel_execute comes to: Ok(bool), Err(msg) or a panic, the runs of
\* its modules and the file it wrote
Executed_main(ret, runs, written) == [ret |-> ret, runs |-> runs, written |-> written]

\* chisel_execute(context); fs tells how serialize_to_file ends
chisel_execute(context, payload_len, fs) ==
    LET file == FileSystem(context.file)
    IN  IF ~file.readable THEN Executed_main("Err(Failed to open wasm binary.)", <<>>, <<>>)
        ELSE IF ~file.decodes
        THEN Executed_main("Err(Failed to deserialize the wasm binary.)", <<>>, <<>>)
        ELSE CHOOSE e \in
                {LET module == IF runs = <<>> THEN file.contents ELSE runs[Len(runs)].module
                     path == IF context.outfile # None THEN context.outfile[1]
                             ELSE context.file
                 IN  IF runs # <<>> /\ runs[Len(runs)].ret = Panic
                     THEN Executed_main(Panic, runs, <<>>)
                     ELSE IF module # file.contents /\ fs # "ok"
                     THEN Executed_main(Panic, runs, <<>>)
                     ELSE Executed_main(OkBool(\A k \in 1..Len(runs) : runs[k].ret = OkTrue),
                                        runs,
                                        IF module # file.contents
                                        THEN <<FileWritten(path, Encoded("bin", module))>>
                                        ELSE <<>>) :
                    runs \in {run_modules(context.modules, file.contents, payload_len,
                                          <<>>)}} : TRUE

\* how the process ends: process::exit(code), or a panic
Exit(code) == [how |-> "exit", code |-> code]
Aborted == [how |-> "panic", code |-> 101]

\* the rulesets of the configuration file
MaxContexts == 2
ModuleContextPool ==
    {<<ModuleContext("verifyexports", "ewasm")>>,
     <<ModuleContext("trimexports", "ewasm")>>,
     <<ModuleContext("checkstartfunc", "ewasm"), ModuleContext("remapimports", "ewasm")>>,
     <<ModuleContext("checkstartfunc", "ewasm"), ModuleContext("verifyimports", "ewasm")>>,
     <<ModuleContext("trimexports", "pwasm"), ModuleContext("remapimports", "ewasm")>>,
     <<ModuleContext("deployer", "customsection")>>,
     <<ModuleContext("trimexports", "bogus")>>,
     <<ModuleContext("checkfloat", "ewasm")>>,
     <<>>}
ContextPool ==
    {ChiselContext("r", file, outfile, modules) :
        file \in {"a.wasm", "b.wasm"}, outfile \in {None}, modules \in ModuleContextPool}
    \cup {ChiselContext("s", "bad.wasm", Some("out.wasm"),
                        <<ModuleContext("verifyexports", "ewasm")>>)}
\* the configurations: up to MaxContexts rulesets
ContextSeqs == SeqsUpTo(ContextPool, MaxContexts)
SerializedLengths == {41, 65536}

\* ------------------------------------------------------------------------
\* State
\* ------------------------------------------------------------------------
VARIABLES
    \* one pass applied to one module (PassSpec)
    pass,       \* the configured pass
    input,      \* the module the first call was given
    module,     \* the module the pass is applied to
    before,     \* the module as it was before the last call
    produced,   \* what the last functional call returned: <<m>> for Some(m), else <<>>
    rets,       \* the return values of the calls so far, oldest first
    forms,      \* the form of each call: "inplace", "functional", "validate"
    \* the driver (Spec)
    binaryen,       \* whether the build has the feature "binaryen"
    config,         \* the rulesets the configuration still holds
    initial,        \* the configuration the driver was built with
    state,          \* DriverState
    pc,             \* where the driver is: "idle", inside fire ("rulesets",
                    \* "modules"), "panicked", or "taken" after take_result
    results,        \* fire: the results so far
    ruleset,        \* fire: the ruleset being executed, with the passes left
    ruleset_result, \* fire: the result of the ruleset being executed
    wasm,           \* fire: the working module
    loaded,         \* the working module as it was loaded
    fires,          \* how each fire call so far ended: "Error", "Done", "panic"
    started,        \* the names of the rulesets popped so far
    completed,      \* the results of the rulesets completed so far
    taken,          \* <<results>> once take_result returned them
    \* writing one ruleset result (WriteSpec)
    wabt,           \* whether the build has the feature "wabt"
    target,         \* the RulesetResult write is called on
    files,          \* the files written so far, oldest first
    writes,         \* the calls of write so far: mode, return value, whether the
                    \* result held an output module, and the files the call wrote
    \* building passes from an option map (ConfigSpec)
    options,        \* the option map
    configured,     \* the calls of with_config so far: the pass and what it returned
    \* config-driven mode (MainSpec)
    ctxs,           \* chisel_subcommand_run: the rulesets still to execute
    acc,            \* chisel_subcommand_run: the accumulator of the fold
    ran,            \* what chisel_execute came to for each ruleset so far
    exited          \* <<how the process ended>>, <<>> while it runs

pvars == <<pass, input, module, before, produced, rets, forms>>
dvars == <<binaryen, config, initial, state, pc, results, ruleset, ruleset_result, wasm,
           loaded, fires, started, completed, taken>>
wvars == <<wabt, target, files, writes>>
cvars == <<options, configured>>
mvars == <<ctxs, acc, ran, exited>>
xvars == <<wvars, cvars, mvars>>
vars == <<pvars, dvars, xvars>>

NoRuleset == Ruleset("", None, None, <<>>)
NoRulesetResult == RulesetResult("", "")

DriverIdle ==
    /\ binaryen = FALSE
    /\ config = <<>>
    /\ initial = <<>>
    /\ state = Ready
    /\ pc = "idle"
    /\ results = <<>>
    /\ ruleset = NoRuleset
    /\ ruleset_result = NoRulesetResult
    /\ wasm = <<>>
    /\ loaded = <<>>
    /\ fires = <<>>
    /\ started = <<>>
    /\ completed = <<>>
    /\ taken = <<>>

WriterIdle ==
    /\ wabt = FALSE
    /\ target = NoRulesetResult
    /\ files = <<>>
    /\ writes = <<>>

ConfigIdle ==
    /\ options = <<>>
    /\ configured = <<>>

MainIdle ==
    /\ ctxs = <<>>
    /\ acc = 0
    /\ ran = <<>>
    /\ exited = <<>>

PassIdle ==
    /\ pass = BasePass("")
    /\ input = <<>>
    /\ module = <<>>
    /\ before = <<>>
    /\ produced = <<>>
    /\ rets = <<>>
    /\ forms = <<>>

PassInit ==
    /\ DriverIdle
    /\ WriterIdle
    /\ ConfigIdle
    /\ MainIdle
    /\ \/ pass \in PassInstances /\ module \in Modules
       \/ pass \in DeployerInstances /\ module = <<>>
       \/ pass = BasePass("checkfloat") /\ module \in InstructionFamily
    /\ input = module
    /\ before = module
    /\ produced = <<>>
    /\ rets = <<>>
    /\ forms = <<>>

\* p.translate_inplace(&mut module)
TranslateInplace ==
    /\ Len(rets) < MaxCalls
    /\ pass.id \in InplaceTranslators \cup FunctionalOnly
    /\ LET o == translate_inplace(pass, module)
       IN  /\ module' = o.module
           /\ rets' = Append(rets, o.ret)
    /\ before' = module
    /\ produced' = <<>>
    /\ forms' = Append(forms, "inplace")
    /\ UNCHANGED <<pass, input, dvars, xvars>>

\* p.translate(&module)
Translate ==
    /\ Len(rets) < MaxCalls
    /\ pass.id \in InplaceTranslators \cup FunctionalOnly
    /\ LET o == translate(pass, module)
       IN  /\ produced' = IF o.ret = "Some" THEN <<o.module>> ELSE <<>>
           /\ rets' = Append(rets, o.ret)
    /\ before' = module
    /\ forms' = Append(forms, "functional")
    /\ UNCHANGED <<pass, input, module, dvars, xvars>>

\* v.validate(&module)
Validate ==
    /\ Len(rets) < MaxCalls
    /\ pass.id \in Validators
    /\ rets' = Append(rets, validate(pass, module))
    /\ before' = module
    /\ produced' = <<>>
    /\ forms' = Append(forms, "validate")
    /\ UNCHANGED <<pass, input, module, dvars, xvars>>

\* c.create()
Create ==
    /\ Len(rets) < MaxCalls
    /\ pass.id \in Creators
    /\ \E o \in {create(pass)} :
          /\ produced' = <<o.module>>
          /\ rets' = Append(rets, o.ret)
    /\ before' = module
    /\ forms' = Append(forms, "create")
    /\ UNCHANGED <<pass, input, module, dvars, xvars>>

PassNext == TranslateInplace \/ Translate \/ Validate \/ Create

PassSpec == PassInit /\ [][PassNext]_vars

\* ------------------------------------------------------------------------
\* The driver (Spec)
\* ------------------------------------------------------------------------
\* ChiselDriver::new(config)
Init ==
    /\ PassIdle
    /\ WriterIdle
    /\ ConfigIdle
    /\ MainIdle
    /\ binaryen \in BOOLEAN
    /\ config \in Configs
    /\ initial = config
    /\ state = Ready
    /\ pc = "idle"
    /\ results = <<>>
    /\ ruleset = NoRuleset
    /\ ruleset_result = NoRulesetResult
    /\ wasm = <<>>
    /\ loaded = <<>>
    /\ fires = <<>>
    /\ started = <<>>
    /\ completed = <<>>
    /\ taken = <<>>

\* fire is called: it starts from the results of the state, or panics on a
\* completed driver
FireCalled ==
    /\ pc = "idle"
    /\ IF state.tag = "Done"
       THEN /\ pc' = "panicked"
            /\ fires' = Append(fires, "panic")
            /\ UNCHANGED results
       ELSE /\ pc' = "rulesets"
            /\ results' = previous_result(state)
            /\ UNCHANGED fires
    /\ UNCHANGED <<pvars, xvars, binaryen, config, initial, state, ruleset, ruleset_result, wasm,
                   loaded, started, completed, taken>>

\* the head of the ruleset loop: the next ruleset is popped and its input is
\* loaded; a failure ends the call in Error, a name section that does not
\* parse in a panic
LoadRuleset ==
    /\ pc = "rulesets"
    /\ config # <<>>
    /\ config' = Tail(config)
    /\ started' = Append(started, Head(config).name)
    /\ \E l \in {load(Head(config).name, Head(config))} :
           CASE l.status = "Ok" ->
                    /\ ruleset' = Head(config)
                    /\ ruleset_result' = RulesetResult(Head(config).name, l.output_path)
                    /\ wasm' = l.wasm
                    /\ loaded' = l.wasm
                    /\ pc' = "modules"
                    /\ UNCHANGED <<state, fires>>
             [] l.status = "Err" ->
                    /\ state' = Error(l.error, results)
                    /\ fires' = Append(fires, "Error")
                    /\ pc' = "idle"
                    /\ UNCHANGED <<ruleset, ruleset_result, wasm, loaded>>
             [] OTHER ->
                    /\ fires' = Append(fires, "panic")
                    /\ pc' = "panicked"
                    /\ UNCHANGED <<state, ruleset, ruleset_result, wasm, loaded>>
    /\ UNCHANGED <<pvars, xvars, binaryen, initial, results, completed, taken>>

\* the module loop: the next pass is popped and executed
ExecuteModule ==
    /\ pc = "modules"
    /\ ruleset.modules # <<>>
    /\ ruleset' = [ruleset EXCEPT !.modules = Tail(@)]
    /\ \E backend \in Backend(Head(ruleset.modules).name) :
         \E r \in {execute_module(Head(ruleset.modules).name, Head(ruleset.modules), wasm,
                                  binaryen, backend)} :
             CASE r.status = "Ok" ->
                      /\ wasm' = r.wasm
                      /\ ruleset_result' = record_result(ruleset_result, r.result, r.wasm)
                      /\ UNCHANGED <<state, fires, pc>>
               [] r.status = "Err" ->
                      /\ state' = Error(r.error, results)
                      /\ fires' = Append(fires, "Error")
                      /\ pc' = "idle"
                      /\ UNCHANGED <<wasm, ruleset_result>>
               [] OTHER ->
                      /\ fires' = Append(fires, "panic")
                      /\ pc' = "panicked"
                      /\ UNCHANGED <<state, wasm, ruleset_result>>
    /\ UNCHANGED <<pvars, xvars, binaryen, config, initial, results, loaded, started, completed,
                   taken>>

\* the module loop is over: the result of the ruleset is pushed
FinishRuleset ==
    /\ pc = "modules"
    /\ ruleset.modules = <<>>
    /\ results' = Append(results, ruleset_result)
    /\ completed' = Append(completed, ruleset_result)
    /\ pc' = "rulesets"
    /\ UNCHANGED <<pvars, xvars, binaryen, config, initial, state, ruleset, ruleset_result, wasm,
                   loaded, fires, started, taken>>

\* the ruleset loop is over: the call ends in Done
FireDone ==
    /\ pc = "rulesets"
    /\ config = <<>>
    /\ state' = Done(results)
    /\ fires' = Append(fires, "Done")
    /\ pc' = "idle"
    /\ UNCHANGED <<pvars, xvars, binaryen, config, initial, results, ruleset, ruleset_result, wasm,
                   loaded, started, completed, taken>>

\* ChiselDriver::take_result consumes the driver; it panics in Ready
TakeResult ==
    /\ pc = "idle"
    /\ IF state.tag = "Ready"
       THEN pc' = "panicked" /\ UNCHANGED taken
       ELSE pc' = "taken" /\ taken' = <<state.results>>
    /\ UNCHANGED <<pvars, xvars, binaryen, config, initial, state, results, ruleset,
                   ruleset_result, wasm, loaded, fires, started, completed>>

Next ==
    \/ FireCalled
    \/ LoadRuleset
    \/ ExecuteModule
    \/ FinishRuleset
    \/ FireDone
    \/ TakeResult

Spec == Init /\ [][Next]_vars

\* ------------------------------------------------------------------------
\* The driver under a caller that loops on fire as chisel_oneliner does,
\* calling it again after each Error, and takes the result after Done
\* ------------------------------------------------------------------------
CallerFire == state.tag # "Done" /\ FireCalled
CallerTake == state.tag = "Done" /\ TakeResult

CallerNext ==
    \/ CallerFire
    \/ LoadRuleset
    \/ ExecuteModule
    \/ FinishRuleset
    \/ FireDone
    \/ CallerTake

CallerSpec == Init /\ [][CallerNext]_vars /\ WF_vars(CallerNext)

\* ------------------------------------------------------------------------
\* Writing a ruleset result
\* ------------------------------------------------------------------------
WriteInit ==
    /\ PassIdle
    /\ DriverIdle
    /\ ConfigIdle
    /\ MainIdle
    /\ wabt \in BOOLEAN
    /\ target \in WriteTargets
    /\ files = <<>>
    /\ writes = <<>>

\* result.write(mode)
Write ==
    /\ Len(writes) < MaxWrites
    /\ \E mode \in WriteModes, encodes \in BOOLEAN, fs \in {"ok", "failed", "partial"} :
          \E o \in {rulesetresult_write(target, mode, wabt, encodes, fs)} :
              /\ target' = o.result
              /\ files' = files \o o.files
              /\ writes' = Append(writes, [mode |-> mode, ret |-> o.ret,
                                           held |-> target.output_module # <<>>,
                                           wrote |-> o.files])
    /\ UNCHANGED <<pvars, dvars, cvars, mvars, wabt>>

WriteNext == Write

WriteSpec == WriteInit /\ [][WriteNext]_vars

\* ------------------------------------------------------------------------
\* Building passes from an option map
\* ------------------------------------------------------------------------
MaxConfigured == 2

ConfigInit ==
    /\ PassIdle
    /\ DriverIdle
    /\ WriterIdle
    /\ MainIdle
    /\ options \in OptionMaps
    /\ configured = <<>>

\* <pass>::with_config(&options)
WithConfig ==
    /\ Len(configured) < MaxConfigured
    /\ \E id \in ConfigurablePasses, first \in DOMAIN options \cup {""} :
          /\ first = "" <=> DOMAIN options = {}
          /\ \E c \in {with_config(id, options, first)} :
                configured' = Append(configured, [id |-> id, ret |-> c.ret, pass |-> c.pass])
    /\ UNCHANGED <<pvars, dvars, wvars, mvars, options>>

ConfigNext == WithConfig

ConfigSpec == ConfigInit /\ [][ConfigNext]_vars

\* ------------------------------------------------------------------------
\* Config-driven mode
\* ------------------------------------------------------------------------
MainInit ==
    /\ PassIdle
    /\ DriverIdle
    /\ WriterIdle
    /\ ConfigIdle
    /\ ctxs \in ContextSeqs
    /\ acc = 0
    /\ ran = <<>>
    /\ exited = <<>>

\* one step of the fold of chisel_subcommand_run: chisel_execute(&ctx) and
\* the match on what it returns
ChiselExecute ==
    /\ exited = <<>>
    /\ ctxs # <<>>
    /\ \E payload_len \in SerializedLengths, fs \in {"ok", "failed"} :
          \E e \in {chisel_execute(ctxs[1], payload_len, fs)} :
              /\ ran' = Append(ran, e)
              /\ CASE e.ret = Panic -> exited' = <<Aborted>> /\ UNCHANGED acc
                   [] e.ret \in {OkTrue, OkFalse} ->
                        /\ acc' = acc + (IF e.ret = OkTrue THEN 0 ELSE 1)
                        /\ UNCHANGED exited
                   [] OTHER -> exited' = <<Exit(-1)>> /\ UNCHANGED acc
    /\ ctxs' = Tail(ctxs)
    /\ UNCHANGED <<pvars, dvars, wvars, cvars>>

\* process::exit(chisel_subcommand_run(..)) once the fold is over
MainExit ==
    /\ exited = <<>>
    /\ ctxs = <<>>
    /\ exited' = <<Exit(acc)>>
    /\ UNCHANGED <<pvars, dvars, wvars, cvars, ctxs, acc, ran>>

MainNext == ChiselExecute \/ MainExit

MainSpec == MainInit /\ [][MainNext]_vars

\* ------------------------------------------------------------------------
\* A sequence of translators applied in place to one module
\* ------------------------------------------------------------------------
MaxPipeline == 2

\* the translators of the sequence, and the modules it starts from: with
\* and without exports, a start function, custom sections
PipelinePasses ==
    {p \in PassInstances : p.id \in InplaceTranslators /\ p.index < 3}
PipelineModules == ExportFamily \cup CustomFamily

PipelineInit ==
    /\ DriverIdle
    /\ WriterIdle
    /\ ConfigIdle
    /\ MainIdle
    /\ pass = BasePass("")
    /\ module \in PipelineModules
    /\ input = module
    /\ before = module
    /\ produced = <<>>
    /\ rets = <<>>
    /\ forms = <<>>

\* the next translator of the sequence: p.translate_inplace(&mut module);
\* forms keeps the names of the translators applied
ApplyTranslator ==
    /\ Len(rets) < MaxPipeline
    /\ \E p \in PipelinePasses :
          /\ pass' = p
          /\ \E o \in {translate_inplace(p, module)} :
                /\ module' = o.module
                /\ rets' = Append(rets, o.ret)
          /\ forms' = Append(forms, p.id)
    /\ before' = module
    /\ UNCHANGED <<input, produced, dvars, xvars>>

PipelineNext == ApplyTranslator

PipelineSpec == PipelineInit /\ [][PipelineNext]_vars

\* ------------------------------------------------------------------------
\* Properties of the passes (PassSpec)
\* ------------------------------------------------------------------------
LastRet == rets[Len(rets)]
LastForm == forms[Len(forms)]

\* C8: a translator reports change iff the module really changed:
\* translate_inplace returns Ok(true) exactly when the module after the call
\* differs from the module before it, and translate returns Some(m) exactly
\* when m differs from its input.
C8_ReportsChangeIffChanged ==
    /\ (rets # <<>> /\ LastForm = "inplace" /\ LastRet \in {OkTrue, OkFalse})
            => ((LastRet = OkTrue) <=> (module # before))
    /\ (rets # <<>> /\ LastForm = "functional" /\ LastRet = "Some")
            => (produced[1] # before)

\* the number of sections a dropsection selector by name matches
MatchCount(p, m) ==
    Cardinality({i \in 1..Len(m) :
                    IF m[i].kind = "Custom"
                    THEN m[i].name = (IF p.mode = "names" THEN "name" ELSE p.name)
                    ELSE m[i].kind = "Name"
                         /\ (IF p.mode = "names" THEN "name" ELSE p.name) = "name"})

KindCount(m, kind) == Cardinality({i \in 1..Len(m) : m[i].kind = kind})

TwoInplaceCalls == Len(rets) = 2 /\ forms = <<"inplace", "inplace">>

\* C9 as claimed: for every in-place translator, dropsection by index and
\* remapimports without a prefix included, a call that returned Ok(true) is
\* followed by a call that returns Ok(false).
C9_SecondCallReportsNoChange ==
    (TwoInplaceCalls /\ pass.id \in InplaceTranslators /\ rets[1] = OkTrue)
        => rets[2] = OkFalse

\* the passes and inputs the amended C9 covers
C9_Covered ==
    \/ pass.id \in {"remapstart", "trimstartfunc"} /\ KindCount(input, "Start") <= 1
    \/ pass.id = "trimexports"
    \/ pass.id = "remapimports"
       /\ \A k \in 1..Len(pass.interfaces) : pass.interfaces[k].has_prefix
    \/ pass.id = "dropsection" /\ pass.mode \in {"names", "custom_by_name"}
       /\ MatchCount(pass, input) <= 1

\* C9 amended: for remapstart and trimstartfunc on a module with at most one
\* start section, for trimexports, for remapimports whose interfaces all have
\* a prefix, and for dropsection by name on a module with at most one matching
\* section: after translate_inplace returned Ok(true), a second call on the
\* resulting module returns Ok(false).
C9_IdempotentWhereSelectorIsSpent ==
    (TwoInplaceCalls /\ C9_Covered /\ rets[1] = OkTrue) => rets[2] = OkFalse

C9_Witness ==
    /\ TwoInplaceCalls /\ C9_Covered
    /\ pass.id = "dropsection" /\ pass.mode = "names"
    /\ rets = <<OkTrue, OkFalse>>
    /\ ~has_names_section(module)

\* what the table of C10 accepts: an import entry matches a listed import by
\* namespace and field, and is correct when it has the listed kind and, for a
\* function, its own type reference resolves to the listed signature
Matches(listed, e) == listed.ns = e.ns /\ listed.field = e.field
EntryCorrect(listed, e, m) ==
    /\ e.kind = listed.kind
    /\ listed.kind = "func" =>
          /\ has_section(m, "Type")
          /\ e.idx + 1 <= Len(get_section(m, "Type").entries)
          /\ same_sig(listed, get_section(m, "Type").entries[e.idx + 1])
ImportsOf(m) == IF has_section(m, "Import") THEN get_section(m, "Import").entries ELSE <<>>
Accepts(p, m) ==
    LET imports == ImportsOf(m)
        I == 1..Len(imports)
        L == 1..Len(p.entries)
        presentAndCorrect(l) ==
            /\ \E i \in I : Matches(p.entries[l], imports[i])
            /\ \A i \in I : Matches(p.entries[l], imports[i])
                              => EntryCorrect(p.entries[l], imports[i], m)
        correctIfPresent(l) ==
            \A i \in I : Matches(p.entries[l], imports[i])
                            => EntryCorrect(p.entries[l], imports[i], m)
        listedAndCorrect(i) ==
            \E l \in L : Matches(p.entries[l], imports[i])
                         /\ EntryCorrect(p.entries[l], imports[i], m)
        noOthers == \A i \in I : \E l \in L : Matches(p.entries[l], imports[i])
    IN  CASE p.require_all /\ p.allow_unlisted -> \A l \in L : presentAndCorrect(l)
          [] p.require_all /\ ~p.allow_unlisted -> (\A l \in L : presentAndCorrect(l)) /\ noOthers
          [] ~p.require_all /\ p.allow_unlisted -> \A l \in L : correctIfPresent(l)
          [] OTHER -> \A i \in I : listedAndCorrect(i)

\* C10: whenever verifyimports returns a verdict, it accepts the module exactly
\* as the table of (require_all, allow_unlisted) says, for every module, also
\* one whose import section repeats an entry or mixes import kinds.
C10_VerdictFollowsTable ==
    (rets # <<>> /\ pass.id = "verifyimports" /\ LastRet \in {OkTrue, OkFalse})
        => LastRet = OkBool(Accepts(pass, module))

\* a module whose function imports all refer to a type of its type section
WellTypedImports(m) ==
    /\ has_section(m, "Type")
    /\ \A i \in 1..Len(ImportsOf(m)) :
          ImportsOf(m)[i].kind = "func"
              => ImportsOf(m)[i].idx + 1 <= Len(get_section(m, "Type").entries)

\* the status C11 gives a listed function import: judged by the type the
\* first matching import entry itself refers to
OwnTypeStatus(listed, m) ==
    IF \E i \in 1..Len(ImportsOf(m)) : Matches(listed, ImportsOf(m)[i])
    THEN IF EntryCorrect(listed,
                         ImportsOf(m)[CHOOSE i \in 1..Len(ImportsOf(m)) :
                                        /\ Matches(listed, ImportsOf(m)[i])
                                        /\ \A j \in 1..(i - 1) :
                                              ~Matches(listed, ImportsOf(m)[j])],
                         m)
         THEN "Good" ELSE "Malformed"
    ELSE "NotFound"

\* C11: on a module whose function imports refer to existing types,
\* verifyimports judges every listed function import by the type its matching
\* import entry refers to (Good iff structurally equal, Malformed when the
\* entry is of another kind or type), whatever the position of the entry, and
\* neither the check nor validate panics on an index out of range.
C11_JudgedByOwnType ==
    (rets # <<>> /\ pass.id = "verifyimports" /\ WellTypedImports(module))
        => /\ LastRet # Panic
           /\ \A l \in 1..Len(pass.entries) :
                 pass.entries[l].kind = "func"
                     => check(pass.entries[l], module) = OwnTypeStatus(pass.entries[l], module)

ExportsOf(m) == IF has_section(m, "Export") THEN get_section(m, "Export").entries ELSE <<>>

\* the function imports of a module, in the order of the import section
FuncImportsOf(m) == SelectSeq(ImportsOf(m), LAMBDA e : e.kind = "func")

\* the function-index rule: index i is the i-th function import when i is
\* smaller than their number, else entry i minus that number of the function
\* section; <<t>> is the type it resolves to, <<>> when there is none
TypeAt(m, ref) ==
    IF has_section(m, "Type") /\ ref + 1 <= Len(get_section(m, "Type").entries)
    THEN <<get_section(m, "Type").entries[ref + 1]>> ELSE <<>>
SigOfFunction(m, i) ==
    IF i < Len(FuncImportsOf(m)) THEN TypeAt(m, FuncImportsOf(m)[i + 1].idx)
    ELSE IF has_section(m, "Function")
            /\ i - Len(FuncImportsOf(m)) + 1 <= Len(get_section(m, "Function").entries)
    THEN TypeAt(m, get_section(m, "Function").entries[i - Len(FuncImportsOf(m)) + 1].idx)
    ELSE <<>>

\* a required export exists with the right kind and, for a function, the
\* right signature
ExportCorrect(listed, e, m) ==
    /\ e.field = listed.field
    /\ e.kind = listed.kind
    /\ listed.kind = "func" =>
          /\ SigOfFunction(m, e.idx) # <<>>
          /\ same_sig(listed, SigOfFunction(m, e.idx)[1])
UniqueExportNames(m) ==
    \A i, j \in 1..Len(ExportsOf(m)) : ExportsOf(m)[i].field = ExportsOf(m)[j].field => i = j
ExportsAccepted(p, m) ==
    /\ \A l \in 1..Len(p.entries) :
          \E i \in 1..Len(ExportsOf(m)) : ExportCorrect(p.entries[l], ExportsOf(m)[i], m)
    /\ ~p.allow_unlisted =>
          \A i \in 1..Len(ExportsOf(m)) :
              \E l \in 1..Len(p.entries) : ExportsOf(m)[i].field = p.entries[l].field

\* C12: on a module whose export names are distinct, verifyexports returns
\* Ok(true) iff every required export is there with the right kind and, for a
\* function, the right signature, and, unless unlisted exports are allowed,
\* the module exports nothing else; otherwise it returns Ok(false).
C12_VerdictIffRequiredExports ==
    (rets # <<>> /\ pass.id = "verifyexports" /\ UniqueExportNames(module))
        => LastRet = OkBool(ExportsAccepted(pass, module))

\* what func_sig_by_index hands back, in the form of SigOfFunction: <<t>> for
\* Some(t), <<>> for None
Resolved(m, i) ==
    IF func_sig_by_index(m, i) = NoSig THEN <<>> ELSE <<func_sig_by_index(m, i)>>

\* C13: verifyexports resolves the signature of an exported function index
\* by the function-index rule (the type of the imported function when the
\* index is smaller than the number of function imports, else the type of
\* entry index minus that number of the function section), and validate
\* returns a verdict for every module, never a panic.
C13_ResolvedByFunctionIndexRule ==
    (rets # <<>> /\ pass.id = "verifyexports")
        => /\ LastRet # Panic
           /\ \A i \in 1..Len(ExportsOf(module)) :
                 ExportsOf(module)[i].kind = "func"
                     => /\ func_sig_by_index(module, ExportsOf(module)[i].idx) # PanicSig
                        /\ Resolved(module, ExportsOf(module)[i].idx)
                               = SigOfFunction(module, ExportsOf(module)[i].idx)

\* the call before the current state was translate_inplace of the pass `id`
AfterInplace(id) == rets # <<>> /\ LastForm = "inplace" /\ pass.id = id

\* the listed imports an entry's field names with the prefix of an interface
\* in front: pairs <<interface, listed import>>
CanonicalOf(p, e) ==
    UNION {{<<k, j>> : j \in {j \in 1..Len(p.interfaces[k].imports) :
                                e.field = p.interfaces[k].prefix
                                          \o p.interfaces[k].imports[j].field}} :
           k \in 1..Len(p.interfaces)}
Prefixed(p) == \A k \in 1..Len(p.interfaces) : p.interfaces[k].has_prefix

\* the entry C14 expects in the place of e
Remapped(p, e) ==
    IF CanonicalOf(p, e) = {} THEN e
    ELSE [e EXCEPT
            !.ns = p.interfaces[(CHOOSE kj \in CanonicalOf(p, e) : TRUE)[1]]
                        .imports[(CHOOSE kj \in CanonicalOf(p, e) : TRUE)[2]].ns,
            !.field = p.interfaces[(CHOOSE kj \in CanonicalOf(p, e) : TRUE)[1]]
                        .imports[(CHOOSE kj \in CanonicalOf(p, e) : TRUE)[2]].field]

\* C14: after remapimports built from presets with a prefix, no import entry
\* has a field made of the prefix and a canonical field of that interface;
\* every such entry of the input has the canonical namespace and field and
\* its old external descriptor, and the number and order of the import
\* entries, every other entry and every other section are unchanged.
C14_PrefixedImportsRemapped ==
    (AfterInplace("remapimports") /\ Prefixed(pass))
        => /\ Len(module) = Len(before)
           /\ \A s \in 1..Len(module) : module[s].kind # "Import" => module[s] = before[s]
           /\ Len(ImportsOf(module)) = Len(ImportsOf(before))
           /\ \A i \in 1..Len(ImportsOf(module)) :
                 /\ ImportsOf(module)[i] = Remapped(pass, ImportsOf(before)[i])
                 /\ CanonicalOf(pass, ImportsOf(module)[i]) = {}

\* a prefixed import was remapped next to an import that was left alone
C14_Witness ==
    /\ AfterInplace("remapimports") /\ Prefixed(pass)
    /\ LastRet = OkTrue
    /\ Len(ImportsOf(before)) = 2
    /\ ImportsOf(before)[1] = ImportEntry("ethereum", <<"storageStore">>, "func", 2)
    /\ ImportsOf(before)[2] = ImportEntry("env", <<"ethereum_", "useGas">>, "func", 1)
    /\ ImportsOf(module)[1] = ImportsOf(before)[1]
    /\ ImportsOf(module)[2] = ImportEntry("ethereum", <<"useGas">>, "func", 1)

\* the sections of a module that are of none of the kinds
SectionsBut(m, kinds) == SelectSeq(m, LAMBDA s : s.kind \notin kinds)
\* the place of the first export named main, 0 when there is none
FirstMain(entries) ==
    IF \E i \in 1..Len(entries) : entries[i].field = <<"main">>
    THEN CHOOSE i \in 1..Len(entries) :
            /\ entries[i].field = <<"main">>
            /\ \A j \in 1..(i - 1) : entries[j].field # <<"main">>
    ELSE 0

\* C15: remapstart on a module whose start section names function f leaves no
\* start section and an export main of kind function pointing at f, put in
\* the place of an existing export main, appended when the export section has
\* none, in a new export section when there was none; every other export and
\* every other section is unchanged.  On a module without a start section it
\* changes nothing and reports no change.
C15_StartBecomesMain ==
    AfterInplace("remapstart")
        => IF start_section(before) = -1
           THEN module = before /\ LastRet = OkFalse
           ELSE /\ LastRet = OkTrue
                /\ ~has_section(module, "Start")
                /\ has_section(module, "Export")
                /\ SectionsBut(module, {"Export", "Start"})
                       = SectionsBut(before, {"Export", "Start"})
                /\ IF FirstMain(ExportsOf(before)) # 0
                   THEN ExportsOf(module)
                            = [ExportsOf(before) EXCEPT ![FirstMain(ExportsOf(before))] =
                                    ExportEntry(<<"main">>, "func", start_section(before))]
                   ELSE ExportsOf(module)
                            = Append(ExportsOf(before),
                                     ExportEntry(<<"main">>, "func", start_section(before)))

\* an export main of another function was replaced in place, next to an
\* export that was left alone
C15_Witness ==
    /\ AfterInplace("remapstart")
    /\ start_section(before) = 1
    /\ ExportsOf(before) = <<ExportEntry(<<"memory">>, "memory", 0),
                             ExportEntry(<<"main">>, "func", 0)>>
    /\ ExportsOf(module) = <<ExportEntry(<<"memory">>, "memory", 0),
                             ExportEntry(<<"main">>, "func", 1)>>
    /\ ~has_section(module, "Start")
    /\ LastRet = OkTrue

\* the allowed set of a trimexports pass: pairs of field name and export kind
AllowedExports(p) == {<<p.entries[i].field, p.entries[i].kind>> : i \in 1..Len(p.entries)}
IsAllowed(p, e) == <<e.field, e.kind>> \in AllowedExports(p)

\* C16: trimexports leaves an export section made of exactly the original
\* entries that match the allowed set of the preset by field name and export
\* kind, in their original order, and every other section as it was; it
\* reports change iff an entry was removed, and a module without an export
\* section is left unchanged.
C16_ExportsRestrictedToAllowed ==
    AfterInplace("trimexports")
        => /\ ExportsOf(module) = SelectSeq(ExportsOf(before), LAMBDA e : IsAllowed(pass, e))
           /\ SectionsBut(module, {"Export"}) = SectionsBut(before, {"Export"})
           /\ has_section(module, "Export") <=> has_section(before, "Export")
           /\ (LastRet = OkTrue) <=> (Len(ExportsOf(module)) < Len(ExportsOf(before)))
           /\ LastRet \in {OkTrue, OkFalse}
           /\ ~has_section(before, "Export") => module = before

\* an export named main of the wrong kind was removed, the memory export kept
C16_Witness ==
    /\ AfterInplace("trimexports") /\ pass.preset = "ewasm"
    /\ ExportsOf(before) = <<ExportEntry(<<"main">>, "global", 0),
                             ExportEntry(<<"memory">>, "memory", 0)>>
    /\ ExportsOf(module) = <<ExportEntry(<<"memory">>, "memory", 0)>>
    /\ LastRet = OkTrue

\* the sections a dropsection selector matches: the name section in either
\* form, a custom section by its name, a custom section for custom_by_index,
\* the section at the index for unknown_by_index
IsNamed(s, name) ==
    IF s.kind = "Custom" THEN s.name = name ELSE s.kind = "Name" /\ name = "name"
Selects(p, m, i) ==
    CASE p.mode = "names" ->
            IsNamed(m[i], "name") /\ \A j \in 1..(i - 1) : ~IsNamed(m[j], "name")
      [] p.mode = "custom_by_name" ->
            IsNamed(m[i], p.name) /\ \A j \in 1..(i - 1) : ~IsNamed(m[j], p.name)
      [] p.mode = "custom_by_index" -> m[i].kind \in {"Custom", "Name"}
      [] OTHER -> i = p.index + 1

\* C17: dropsection removes at most one section, the first one its selector
\* matches, and leaves the others unchanged and in order; it reports change
\* iff a section was removed; with custom_by_index the section removed is a
\* custom section, never a standard one, and an index out of range is a
\* silent no-op.
C17_DropsOneSelectedSection ==
    AfterInplace("dropsection")
        => /\ LastRet \in {OkTrue, OkFalse}
           /\ LastRet = OkFalse => module = before
           /\ LastRet = OkTrue =>
                 \E i \in 1..Len(before) :
                     module = RemoveAt(before, i) /\ Selects(pass, before, i)
           /\ (pass.mode \in {"names", "custom_by_name"} /\ LastRet = OkFalse)
                 => \A i \in 1..Len(before) : ~Selects(pass, before, i)
           /\ (pass.mode \in {"custom_by_index", "unknown_by_index"}
               /\ pass.index >= Len(before)) => LastRet = OkFalse

\* C18 as claimed: after dropsection configured with `names`, applied to any
\* module, has_names_section is false on the result.
C18_NoNamesSectionAfterDrop ==
    (AfterInplace("dropsection") /\ pass.mode = "names") => ~has_names_section(module)

\* C18 amended: dropsection configured with `names`, applied to a module that
\* holds at most one name section, raw or parsed, leaves a module on which
\* has_names_section is false; of several name sections only the first is
\* removed.
C18_NoNamesSectionAfterDropOfTheOnlyOne ==
    (AfterInplace("dropsection") /\ pass.mode = "names" /\ MatchCount(pass, before) <= 1)
        => ~has_names_section(module)

\* a name section in parsed form, behind the standard sections, was dropped
C18_Witness ==
    /\ AfterInplace("dropsection") /\ pass.mode = "names"
    /\ MatchCount(pass, before) = 1
    /\ \E i \in 1..Len(before) : before[i].kind = "Name"
    /\ has_names_section(before)
    /\ LastRet = OkTrue
    /\ ~has_names_section(module)

\* the call before the current state was translate of the pass `id`, and it
\* returned a module
AfterFunctional(id) ==
    rets # <<>> /\ LastForm = "functional" /\ pass.id = id /\ produced # <<>>

\* the contents of the standard section of a kind: its entries, none when the
\* section is absent; the function the start section names, -1 for none
ContentsOf(m, kind) == IF has_section(m, kind) THEN get_section(m, kind).entries ELSE <<>>

AfterCreate(preset) ==
    /\ rets # <<>>
    /\ LastForm = "create"
    /\ pass.mode = preset

\* ceil(a / b) for b > 0: the least q with q * b >= a
CeilDiv(a, b) == CHOOSE q \in 0..(a \div b + 1) : q * b >= a /\ (q - 1) * b < a

\* four single bytes, and the unsigned number they spell least significant
\* byte first
IsFourBytes(bytes) ==
    /\ Len(bytes) = 4
    /\ \A k \in 1..4 : bytes[k].count = 1 /\ bytes[k].byte \in 0..255
LEValue(bytes) ==
    bytes[1].byte + 256 * bytes[2].byte + 65536 * bytes[3].byte + 16777216 * bytes[4].byte

\* C20: the module the customsection deployer creates is the wrapper of
\* deployer_code with its memory minimum set to ceil((len + 1) / 65536) pages
\* and with one section more, last: a custom section named "deployer" whose
\* payload is the input payload followed by four bytes that spell its length
\* least significant byte first. For the empty payload that is the wrapper
\* unchanged followed by a "deployer" section of four zero bytes.
C20_CustomDeployerOutput ==
    AfterCreate("customsection")
        => /\ LastRet = "Ok"
           /\ produced # <<>>
           /\ LET out == produced[1]
                  n == Len(deployer_code)
                  len == ByteLen(pass.payload)
                  last == out[Len(out)]
                  tail == SubSeq(last.payload, Len(pass.payload) + 1, Len(last.payload))
              IN  /\ Len(out) = n + 1
                  /\ \A i \in 1..n :
                        out[i] = IF deployer_code[i].kind = "Memory"
                                 THEN MemorySection(CeilDiv(len + 1, PageSize))
                                 ELSE deployer_code[i]
                  /\ last.kind = "Custom"
                  /\ last.name = "deployer"
                  /\ SubSeq(last.payload, 1, Len(pass.payload)) = pass.payload
                  /\ IsFourBytes(tail)
                  /\ LEValue(tail) = len
                  /\ pass.payload = <<>>
                        => out = deployer_code
                                 \o <<CustomSection("deployer",
                                                    <<Run(0, 1), Run(0, 1), Run(0, 1),
                                                      Run(0, 1)>>)>>

\* a payload of a whole number of pages has been wrapped: the memory grew
C20_Witness ==
    /\ AfterCreate("customsection")
    /\ ByteLen(pass.payload) = 2 * PageSize
    /\ get_section(produced[1], "Memory") = MemorySection(3)

\* a floating-point instruction: one that works on f32 or f64 values
IsFloatingPoint(name) ==
    \E r \in InstructionTable :
        /\ r.name = name
        /\ r.class \in {"arithmetic", "comparison", "conversion", "reinterpretation",
                        "constant", "load", "store"}
        /\ r.types \cap {"f32", "f64"} # {}
BodiesOf(m) == IF has_section(m, "Code") THEN get_section(m, "Code").entries ELSE <<>>
HasFloatingPoint(m) ==
    \E f \in 1..Len(BodiesOf(m)) :
        \E k \in 1..Len(BodiesOf(m)[f].params) : IsFloatingPoint(BodiesOf(m)[f].params[k])

AfterValidate(id) ==
    /\ rets # <<>>
    /\ LastForm = "validate"
    /\ pass.id = id

\* C21: checkfloat.validate returns true iff no function body of the code
\* section holds a floating-point instruction, and fails with NotFound when
\* the module has no code section.
C21_CheckFloatVerdict ==
    AfterValidate("checkfloat")
        => LastRet = IF ~has_section(before, "Code") THEN ErrNotFound
                     ELSE OkBool(~HasFloatingPoint(before))

\* a body whose only floating-point instruction is a conversion from an
\* integer was rejected
C21_Witness ==
    /\ AfterValidate("checkfloat")
    /\ \E f \in 1..Len(BodiesOf(before)) : BodiesOf(before)[f].params[2] = "F64ConvertUI64"
    /\ LastRet = OkFalse

\* ------------------------------------------------------------------------
\* Properties of the driver (Spec)
\* ------------------------------------------------------------------------
Errs == {ErrNotSupported, ErrNotFound, ErrCustom}
Names(rs) == [i \in 1..Len(rs) |-> rs[i].name]
Last(s) == s[Len(s)]

\* a step of the module loop, and the pass it pops
ModuleStep == pc = "modules" /\ ruleset.modules # <<>>
Popped == Head(ruleset.modules)
\* the step pushed an outcome, the step ended the call in Error
Recorded == Len(ruleset_result'.results) = Len(ruleset_result.results) + 1
EndedInError == pc' = "idle" /\ state'.tag = "Error"
\* the step did not run the pass: no outcome, the working module untouched
NotRun == ruleset_result' = ruleset_result /\ wasm' = wasm

\* C1 as claimed: a pass that returns an error from validate or translate
\* ends the fire call in Error(Internal) naming the pass, so no step of the
\* module loop records an error as the outcome of a pass, and the ruleset
\* contributes no record.
C1_PassErrorEndsFire ==
    [][(ModuleStep /\ Recorded) => Last(ruleset_result'.results).ret \notin Errs]_vars

\* C1 amended: only a failure of snip ends the fire call in Error(Internal),
\* naming "snip", with the results of the earlier rulesets and no record of
\* this one; an error returned by any other pass (checkfloat returning
\* NotFound on a module with no code section) is recorded as the outcome of
\* that pass and the ruleset goes on.
C1_OnlySnipEndsFire ==
    [][ModuleStep =>
        /\ (EndedInError /\ state'.error.kind = "Internal")
              => /\ Popped.name = "snip"
                 /\ state'.error.object = "snip"
                 /\ state'.results = results
                 /\ \A i \in 1..Len(results) : results[i].name # ruleset.name
        /\ (Popped.name = "checkfloat" /\ ~has_section(wasm, "Code"))
              => /\ Recorded
                 /\ Last(ruleset_result'.results)
                        = ModuleResult("Validator", "checkfloat", ErrNotFound)
                 /\ pc' = "modules" /\ state' = state
        /\ (Recorded /\ Last(ruleset_result'.results).ret \in Errs)
              => /\ Popped.name # "snip"
                 /\ Last(ruleset_result'.results).name = Popped.name
                 /\ pc' = "modules" /\ state' = state /\ wasm' = wasm]_vars

\* a ruleset completed although checkfloat returned NotFound in it
C1_Witness ==
    /\ pc = "idle" /\ state.tag = "Done"
    /\ \E i \in 1..Len(state.results) :
          /\ Len(state.results[i].results) = 2
          /\ state.results[i].results[1]
                = ModuleResult("Validator", "checkfloat", ErrNotFound)

\* C2: in Error the state holds exactly the records of the rulesets completed
\* so far, in the order of the configuration; a following fire call starts
\* from these records and keeps them, and the rulesets popped so far followed
\* by those the configuration still holds are the rulesets of the initial
\* configuration, so that no ruleset is run twice and the call resumes with
\* the one after the failing ruleset.
C2_PartialResultsKept ==
    /\ (pc = "idle" /\ state.tag = "Error") => state.results = completed
    /\ (pc \in {"rulesets", "modules"}) =>
          /\ results = completed
          /\ SubSeq(results, 1, Len(state.results)) = state.results
    /\ started \o Names(config) = Names(initial)
    /\ \A i, j \in 1..Len(completed) :
          i < j => \E a, b \in 1..Len(started) :
                      a < b /\ started[a] = completed[i].name
                            /\ started[b] = completed[j].name

\* the first call failed in the second ruleset, the second call kept the
\* record of the first ruleset and went on with the third
C2_Witness ==
    /\ pc = "idle" /\ fires = <<"Error", "Done">>
    /\ Names(state.results) = <<"r1", "r3">>
    /\ started = <<"r1", "r2", "r3">>

\* C3: once fire has been called the driver is not in Ready any more, every
\* fire call ends in Error or Done, and take_result returns the results
\* accumulated so far.
C3_FireLeavesReady ==
    /\ (fires # <<>>) => state.tag \in {"Error", "Done"}
    /\ \A i \in 1..Len(fires) : fires[i] \in {"Error", "Done"}
    /\ (pc = "taken") => taken = <<completed>>

\* the rulesets of the initial configuration by name
Configured(name) == initial[CHOOSE i \in 1..Len(initial) : initial[i].name = name]

\* ChiselModule::kind of the pass behind a name of execute_module
PassKind(name) == IF name \in Validators THEN "Validator" ELSE "Translator"

RequiredOptionPasses ==
    {"checkstartfunc", "verifyexports", "verifyimports", "trimexports", "remapimports",
     "remapstart", "trimstartfunc", "deployer", "binaryenopt"}
RequiredOption(name) == IF name = "checkstartfunc" THEN "require_start" ELSE "preset"
OptionValue(c) == IF c.name = "checkstartfunc" THEN c.require_start ELSE c.preset
ValidValue(name, v) ==
    CASE name = "checkstartfunc" -> v \in {"true", "false"}
      [] name \in {"verifyexports", "verifyimports", "remapstart", "trimstartfunc"} ->
            v = <<"ewasm">>
      [] name = "trimexports" -> v \in {<<"ewasm">>, <<"pwasm">>}
      [] name = "remapimports" -> \A k \in 1..Len(v) : v[k] \in RemapPresets
      [] name = "deployer" -> Len(v) = 1 /\ v[1] \in DeployerPresets
      [] name = "binaryenopt" -> Len(v) = 1 /\ v[1] \in BinaryenPresets

\* C5: a ruleset without `file` ends the call in
\* Error(MissingRequiredField(ruleset, "file")); a pass with a required option
\* (binaryenopt in a build that has it) ends it in
\* Error(MissingRequiredField(pass, option)) when the option is absent and in
\* Error(InvalidField(pass, option)) when its value is malformed or an unknown
\* preset, and the pass is not run.
C5_RequiredOptionsChecked ==
    [][/\ (pc = "rulesets" /\ config # <<>> /\ Head(config).file = <<>>)
             => /\ EndedInError
                /\ state'.error = MissingRequiredField(Head(config).name, "file")
       /\ (ModuleStep /\ Popped.name \in RequiredOptionPasses
           /\ (Popped.name = "binaryenopt" => binaryen))
             => IF OptionValue(Popped) = <<>>
                THEN /\ EndedInError /\ NotRun
                     /\ state'.error
                            = MissingRequiredField(Popped.name, RequiredOption(Popped.name))
                ELSE ~ValidValue(Popped.name, OptionValue(Popped)[1])
                        => /\ EndedInError /\ NotRun
                           /\ state'.error
                                  = InvalidField(Popped.name, RequiredOption(Popped.name))
      ]_vars

\* the passes of the option table
OptionTablePasses ==
    {"checkfloat", "checkstartfunc", "verifyexports", "verifyimports", "trimexports",
     "remapimports", "remapstart", "trimstartfunc", "dropsection", "repack", "snip",
     "deployer", "binaryenopt"}

\* C6: in a build that has every pass of the option table, a step of the
\* module loop ends the call in Error(ModuleNotFound(name)) exactly when the
\* name of the pass is not in the option table; a pass configured as
\* `dropsection` is executed.
C6_NotFoundIffNotInTable ==
    [][(binaryen /\ ModuleStep) =>
          ((EndedInError /\ state'.error = ModuleNotFound(Popped.name))
              <=> Popped.name \notin OptionTablePasses)]_vars

\* the passes the ruleset being executed was configured with
ConfiguredModules == Configured(ruleset.name).modules
Executing == Len(ConfiguredModules) - Len(ruleset.modules) + 1

C22_WriteTakesTheModule ==
    /\ \A i \in 1..Len(writes) :
          ~writes[i].held => writes[i].ret = OkFalse /\ writes[i].wrote = <<>>
    /\ \A i \in 2..Len(writes) :
          writes[i - 1].held => writes[i].ret = OkFalse /\ writes[i].wrote = <<>>

\* a module was written, and the next call, in another mode, wrote nothing
C22_Witness ==
    /\ Len(writes) = 2
    /\ writes[1].held
    /\ writes[1].ret = OkTrue
    /\ writes[2].mode # writes[1].mode
    /\ writes[2].ret = OkFalse
    /\ Len(files) = 1

\* C23: write on a result that holds an output module returns an error and
\* writes no file when the mode is none of bin, hex, wat, or when the mode is
\* bin and the output path is /dev/stdout or /dev/stderr.
C23_InvalidModeAndRawBinaryToStream ==
    \A i \in 1..Len(writes) :
        (/\ writes[i].held
         /\ \/ writes[i].mode \notin {"bin", "hex", "wat"}
            \/ writes[i].mode = "bin" /\ target.output_path \in {"/dev/stdout", "/dev/stderr"})
            => writes[i].ret \in WriteErrs /\ writes[i].wrote = <<>>

\* raw binary was refused for /dev/stdout
C23_Witness ==
    /\ writes # <<>>
    /\ writes[1].held
    /\ writes[1].mode = "bin"
    /\ target.output_path = "/dev/stdout"
    /\ writes[1].ret = ErrRawBinary
    /\ files = <<>>

\* ------------------------------------------------------------------------
\* Properties of with_config (ConfigSpec)
\* ------------------------------------------------------------------------
\* the options a pass requires: one key of each set must be present
RequiredOptions(id) ==
    CASE id = "checkstartfunc" -> {"require_start"}
      [] id = "dropsection" ->
            {"names", "custom_by_name", "custom_by_index", "unknown_by_index"}
      [] id \in {"remapstart", "trimstartfunc", "binaryenopt"} -> {"preset"}
      [] OTHER -> {}
LacksRequired(id, opts) ==
    RequiredOptions(id) # {} /\ RequiredOptions(id) \cap DOMAIN opts = {}

\* C24: with_config fails with NotSupported when the option map lacks an
\* option the pass requires: require_start for checkstartfunc, each of
\* names, custom_by_name, custom_by_index, unknown_by_index for dropsection,
\* preset for remapstart, trimstartfunc and binaryenopt.
C24_MissingRequiredOptionNotSupported ==
    \A i \in 1..Len(configured) :
        LacksRequired(configured[i].id, options) => configured[i].ret = ErrNotSupported

\* ------------------------------------------------------------------------
\* Properties of the config-driven mode (MainSpec)
\* ------------------------------------------------------------------------
\* a validator of the ruleset did not return true
ValidatorFailed(e) ==
    \E k \in 1..Len(e.runs) :
        /\ e.runs[k].name \in {"verifyexports", "verifyimports", "checkstartfunc"}
        /\ e.runs[k].ret # OkTrue

\* the fold is over and every ruleset was executed
RanToTheEnd ==
    /\ exited # <<>>
    /\ exited[1].how = "exit"
    /\ \A i \in 1..Len(ran) : ran[i].ret \in {OkTrue, OkFalse}

\* C25: in config-driven mode the exit status is the number of rulesets in
\* which a validator returned false; a ruleset whose validators all pass
\* adds nothing, whether its translators changed the module or not.
C25_ExitStatusCountsFailedValidators ==
    RanToTheEnd
        => exited[1].code = Cardinality({i \in 1..Len(ran) : ValidatorFailed(ran[i])})

\* ------------------------------------------------------------------------
\* Properties of a sequence of translators (PipelineSpec)
\* ------------------------------------------------------------------------
\* the number of sections of a kind
RECURSIVE CountKind(_, _)
CountKind(m, kind) ==
    IF m = <<>> THEN 0
    ELSE (IF m[1].kind = kind THEN 1 ELSE 0) + CountKind(Tail(m), kind)

\* every kind of section but the custom ones (the name section, parsed or
\* not, is one of them) appears at most once
AtMostOncePerKind(m) ==
    \A i \in 1..Len(m) : m[i].kind \notin {"Custom", "Name"} => CountKind(m, m[i].kind) = 1

\* C26: a module in which every non-custom kind of section appears at most
\* once keeps that property through any sequence of remapstart, remapimports,
\* trimexports, trimstartfunc and dropsection applied in place; and
\* remapstart adds an export section only to a module that has none.
C26_NoDuplicateSections ==
    AtMostOncePerKind(input)
        => /\ AtMostOncePerKind(module)
           /\ (rets # <<>> /\ pass.id = "remapstart"
               /\ CountKind(module, "Export") > CountKind(before, "Export"))
                  => CountKind(before, "Export") = 0

\* remapstart followed by another translator on a module with a start
\* function and exports: the export section was kept as the only one
C26_Witness ==
    /\ Len(rets) = 2
    /\ forms[1] = "remapstart"
    /\ rets[1] = OkTrue
    /\ AtMostOncePerKind(input)
    /\ CountKind(input, "Export") = 1
    /\ CountKind(module, "Export") = 1

\* remapstart created the export section of a module that had none
C26_CreatedWitness ==
    /\ rets # <<>>
    /\ pass.id = "remapstart"
    /\ CountKind(before, "Export") = 0
    /\ CountKind(module, "Export") = 1

\* ------------------------------------------------------------------------
\* Properties of the driver under a caller that fires until Done (CallerSpec)
\* ------------------------------------------------------------------------
\* the positions of the rulesets of the configuration named in the records
PositionsOf(records) ==
    [i \in 1..Len(records) |->
        CHOOSE k \in 1..Len(initial) : initial[k].name = records[i].name]

\* every fire call that did not end in Done removed a ruleset, there are at
\* most N + 1 calls, and the results of Done are the records of the rulesets
\* that did not fail, one each, in the order of the configuration
C27_FireCallsBounded ==
    /\ Cardinality({i \in 1..Len(fires) : fires[i] # "Done"}) <= Len(initial) - Len(config)
    /\ Len(fires) <= Len(initial) + 1
    /\ state.tag = "Done"
          => /\ Len(state.results) + Cardinality({i \in 1..Len(fires) : fires[i] = "Error"})
                    = Len(initial)
             /\ \A i \in 1..Len(state.results) :
                    \E k \in 1..Len(initial) : initial[k].name = state.results[i].name
             /\ \A i \in 1..(Len(state.results) - 1) :
                    PositionsOf(state.results)[i] < PositionsOf(state.results)[i + 1]

\* C27: from Ready with N rulesets, every fire call that does not end in Done
\* has removed at least one ruleset, so the caller that fires again after
\* each Error reaches Done, after at most N + 1 calls, and the results of
\* Done hold one record for each ruleset that did not fail, in the order of
\* the configuration.
C27_CallerReachesDone == []C27_FireCallsBounded /\ <>(state.tag = "Done")

\* the module loop of the ruleset is over and its record is about to be pushed
RulesetCompletes == pc = "modules" /\ ruleset.modules = <<>>

\* C28: when a ruleset completes, the output module of its record, if
\* present, is the working module as the last pass left it, and if it is
\* absent the working module is still the module loaded from the input file:
\* no pass changes the working module while reporting Ok(false) or an error.
C28_OutputModuleIsWorkingModule ==
    RulesetCompletes
        => IF ruleset_result.output_module # <<>>
           THEN ruleset_result.output_module[1] = wasm
           ELSE wasm = loaded

\* a ruleset completes whose working module was changed and recorded by one
\* pass, and left alone by another that reported no change or an error
C28_Witness ==
    /\ RulesetCompletes
    /\ ruleset_result.output_module # <<>>
    /\ wasm # loaded
    /\ \E i \in 1..Len(ruleset_result.results) :
            /\ ruleset_result.results[i].tag = "Translator"
            /\ ruleset_result.results[i].ret # OkTrue

\* the input of the ruleset resolves to a path, and reading it, converting
\* it from text, decoding it or parsing its name section fails
LoadFails(r) ==
    /\ r.file # <<>>
    /\ FileSystem(r.file[1]).canonical # <<>>
    /\ \/ ~FileSystem(r.file[1]).readable
       \/ ~FileSystem(r.file[1]).text
       \/ ~FileSystem(r.file[1]).decodes
       \/ parse_names(FileSystem(r.file[1]).contents).err

\* C29: every failure while loading the input of a ruleset (reading the
\* file, text-to-binary conversion, binary decoding, parsing the name
\* section) leaves the driver in Error(Internal) with the results of the
\* earlier rulesets preserved; fire never aborts on a malformed input file.
C29_LoadFailureIsInternalError ==
    [][(pc = "rulesets" /\ config # <<>> /\ LoadFails(Head(config)))
            => /\ pc' = "idle"
               /\ state'.tag = "Error"
               /\ state'.error.kind = "Internal"
               /\ state'.results = completed]_vars

\* the number of bytes of n as a VarUint32 (LEB128, seven bits a byte)
RECURSIVE varuint32_len(_)
varuint32_len(n) == IF n < 128 THEN 1 ELSE 1 + varuint32_len(n \div 128)

\* the bytes of a section of deployer_code as they stand in its byte
\* vector, the id byte and the length byte included
wrapper_section_len(kind) ==
    CASE kind = "Type" -> 2 + 19
      [] kind = "Import" -> 2 + 62
      [] kind = "Function" -> 2 + 2
      [] kind = "Export" -> 2 + 17
      [] kind = "Code" -> 2 + 44

\* the bytes of a section of a deployer module in binary form: the id, the
\* length of the body as a VarUint32, and the body. A memory section holds a
\* count, the flags of its limits and the minimum; a custom section the
\* length of its name, the name and the payload.
section_len(s) ==
    CASE s.kind = "Memory" ->
            1 + varuint32_len(2 + varuint32_len(s.entries[1].idx))
              + 2 + varuint32_len(s.entries[1].idx)
      [] s.kind = "Custom" ->
            1 + varuint32_len(varuint32_len(Len(s.name)) + Len(s.name) + ByteLen(s.payload))
              + varuint32_len(Len(s.name)) + Len(s.name) + ByteLen(s.payload)
      [] OTHER -> wrapper_section_len(s.kind)

\* the byte length of the encoded module: magic, version and the sections
RECURSIVE sections_len(_)
sections_len(m) == IF m = <<>> THEN 0 ELSE section_len(m[1]) + sections_len(Tail(m))
serialized_len(m) == 4 + 4 + sections_len(m)

\* C30: for every payload, the memory the customsection deployer declares
\* (its minimum page count times 65536 bytes) is at least the byte length of
\* the whole encoded deployer module, wrapper and "deployer" section, which
\* main copies to memory offset 0 with codeCopy(0, 0, codeSize).
C30_MemoryHoldsTheCode ==
    AfterCreate("customsection")
        => get_section(produced[1], "Memory").entries[1].idx * PageSize
                >= serialized_len(produced[1])

====
